---------------------------- MODULE Spec2Model ----------------------------
(***************************************************************************)
(* goinglogging: the configuration store, the prefix decorator, the value  *)
(* formatter and the three record builders (l, l_arr, l_mat) of            *)
(* include/goinglogging/goinglogging.h.                                     *)
(*                                                                         *)
(* The sink std::cout is a record [buf, fill]: buf is the sequence of      *)
(* bytes (one-character strings) written by the call in progress, fill is  *)
(* the stream's sticky fill character.  Text is modelled byte by byte, so  *)
(* "Line: " is <<"L","i","n","e",":"," ">>.                                *)
(***************************************************************************)
EXTENDS Integers, Sequences, FiniteSets, TLC

VARIABLES
    curPrefixes,    \* internal::curPrefixes, a uint32 bit mask
    outputEnabled,  \* internal::outputEnabled
    colorEnabled,   \* internal::colorEnabled
    cout,           \* std::cout: [buf |-> bytes written by the last call, fill |-> fill char]
    call,           \* history: the last API call and its arguments
    ret,            \* history: what the last call returned (getters)
    reads,          \* history: the element accesses the last call made, in order
    lastSet,        \* history: per field, the value last passed to its setter,
                    \* or the documented default while it was never called
    threads         \* per thread of the caller, the statement it is executing
                    \* and its position in it; [pc |-> "idle"] between statements

vars == <<curPrefixes, outputEnabled, colorEnabled, cout, call, ret, reads, lastSet, threads>>

----------------------------------------------------------------------------
(* enum class prefix : uint32_t *)

NONE == 0
FILE == 1
LINE == 2
FUNCTION == 4
TIME == 8
THREAD == 16
TYPE_NAME == 32

\* Width of the prefix enumeration's underlying type.
PrefixBits == 32

\* Width given to size_t in the model; the scan of Prefixer wraps at 2^SizeBits.
SizeBits == 16

SizeMod == 2 ^ SizeBits

\* std::numeric_limits<size_t>::max()
SizeMax == SizeMod - 1

----------------------------------------------------------------------------
(* Bit operations on uint32 values, bit by bit. *)

RECURSIVE BitAnd(_, _, _)
BitAnd(a, b, w) ==
    IF w = 0 \/ a = 0 \/ b = 0 THEN 0
    ELSE (IF a % 2 = 1 /\ b % 2 = 1 THEN 1 ELSE 0) + 2 * BitAnd(a \div 2, b \div 2, w - 1)

\* prefix operator&(prefix lhs, prefix rhs)
op_and(lhs, rhs) == BitAnd(lhs, rhs, PrefixBits)

RECURSIVE BitOr(_, _, _)
BitOr(a, b, w) ==
    IF w = 0 \/ (a = 0 /\ b = 0) THEN 0
    ELSE (IF a % 2 = 1 \/ b % 2 = 1 THEN 1 ELSE 0) + 2 * BitOr(a \div 2, b \div 2, w - 1)

\* prefix operator|(prefix lhs, prefix rhs)
op_or(lhs, rhs) == BitOr(lhs, rhs, PrefixBits)

RECURSIVE BitXor(_, _, _)
BitXor(a, b, w) ==
    IF w = 0 \/ (a = 0 /\ b = 0) THEN 0
    ELSE (IF (a % 2) # (b % 2) THEN 1 ELSE 0) + 2 * BitXor(a \div 2, b \div 2, w - 1)

\* operator^ computing the union.
op_xor_as_or(lhs, rhs) == BitOr(lhs, rhs, PrefixBits)

\* prefix operator^(prefix lhs, prefix rhs)
op_xor(lhs, rhs) == BitXor(lhs, rhs, PrefixBits)

\* prefix& operator&=(prefix& lhs, prefix rhs): "return lhs = lhs & rhs".
\* lhs is the operand after the assignment, ret the value of the reference
\* returned.
op_and_assign(lhs, rhs) == [lhs |-> op_and(lhs, rhs), ret |-> op_and(lhs, rhs)]

\* prefix& operator|=(prefix& lhs, prefix rhs)
op_or_assign(lhs, rhs) == [lhs |-> op_or(lhs, rhs), ret |-> op_or(lhs, rhs)]

\* prefix& operator^=(prefix& lhs, prefix rhs)
op_xor_assign(lhs, rhs) == [lhs |-> op_xor(lhs, rhs), ret |-> op_xor(lhs, rhs)]

----------------------------------------------------------------------------
(* Text helpers: what the stream's formatted output does. *)

Digit == <<"0", "1", "2", "3", "4", "5", "6", "7", "8", "9">>

\* Decimal rendering of a non-negative integer (std::ostream, base 10, width 0).
RECURSIVE DecNat(_)
DecNat(n) ==
    IF n < 10 THEN <<Digit[n + 1]>>
    ELSE DecNat(n \div 10) \o <<Digit[(n % 10) + 1]>>

\* operator<< of an integer: sign, then digits.
Dec(n) == IF n < 0 THEN <<"-">> \o DecNat(-n) ELSE DecNat(n)

\* os << chars: append to the stream.
put(os, chars) == [os EXCEPT !.buf = @ \o chars]

\* std::setfill(c): sticky.
setfill(os, c) == [os EXCEPT !.fill = c]

\* An output under std::setw(w): padded on the left with the fill character;
\* the width itself is reset by the output.
RECURSIVE PadLeft(_, _, _)
PadLeft(chars, w, f) ==
    IF Len(chars) >= w THEN chars ELSE PadLeft(<<f>> \o chars, w, f)

put_setw(os, w, chars) == put(os, PadLeft(chars, w, os.fill))

\* Two decimal digits, as strftime's %H, %M and %S give.
TwoDigits(n) == <<Digit[(n \div 10) + 1], Digit[(n % 10) + 1]>>

(* An execution of one call is threaded through the operators below as a   *)
(* record x: os is the stream, rd the element accesses made so far, n_now, *)
(* n_localtime and n_get_id count the calls made to the clock, to          *)
(* std::localtime and to std::this_thread::get_id, and pfx is the span of  *)
(* os.buf that operator<< of the Prefixer wrote (bytes pfx[1]+1 .. pfx[2]).*)
start(os) ==
    [os |-> os, rd |-> <<>>, n_now |-> 0, n_localtime |-> 0, n_get_id |-> 0,
     pfx |-> <<0, 0>>]

\* x.os << chars
out(x, chars) == [x EXCEPT !.os = put(@, chars)]

\* An element access at index path at (a tuple of integers).
access(x, at) == [x EXCEPT !.rd = Append(@, at)]

----------------------------------------------------------------------------
(* class Prefixer and its operator<< *)

\* Path separator (the non-Windows branch of the #ifdef).
sep == "/"

\* Prefixer(file_path, file_line, func)
Prefixer(file_path, file_line, func) ==
    [m_file_path |-> file_path, m_file_line |-> file_line, m_func |-> func]

\* The backward scan for the last separator: i runs from str_len - 1 down,
\* in size_t arithmetic, until it wraps to SizeMax.  path[i] of the code is
\* path[i + 1] here (sequences start at 1).
RECURSIVE scan_sep(_, _)
scan_sep(path, i) ==
    IF i = SizeMax THEN SizeMax
    ELSE IF path[i + 1] = sep THEN i
    ELSE scan_sep(path, (i + SizeMod - 1) % SizeMod)

\* sep_idx after the loop.
sep_idx_of(path) == scan_sep(path, (Len(path) + SizeMod - 1) % SizeMod)

\* The FILE text with the separator kept: path + sep_idx.
file_text_off_by_one(path) ==
    LET sep_idx == sep_idx_of(path)
    IN  IF sep_idx = SizeMax THEN path
        ELSE SubSeq(path, sep_idx + 1, Len(path))

\* The text written for FILE: path, or path + sep_idx + 1.
file_text(path) ==
    LET sep_idx == sep_idx_of(path)
    IN  IF sep_idx = SizeMax THEN path
        ELSE SubSeq(path, sep_idx + 2, Len(path))

\* std::localtime of a time_t, as the UTC broken-down time of day.
localtime(sinceEpoch) ==
    [tm_hour |-> (sinceEpoch \div 3600) % 24,
     tm_min  |-> (sinceEpoch \div 60) % 60,
     tm_sec  |-> sinceEpoch % 60]

\* std::put_time(local, "%H:%M:%S")
put_time(local) ==
    TwoDigits(local.tm_hour) \o <<":">> \o TwoDigits(local.tm_min)
        \o <<":">> \o TwoDigits(local.tm_sec)

\* The FILE block.  st is [x, cnt].
prefix_file(st, p) ==
    IF op_and(curPrefixes, FILE) # NONE
    THEN [x |-> out(st.x, file_text(p.m_file_path)), cnt |-> st.cnt + 1]
    ELSE st

\* The LINE block writing the number under std::setw(3).
prefix_line_padded(st, p) ==
    IF op_and(curPrefixes, LINE) # NONE
    THEN [x |-> [out(st.x, IF st.cnt = 0 THEN <<"L", "i", "n", "e", ":", " ">> ELSE <<":">>)
                    EXCEPT !.os = put_setw(@, 3, Dec(p.m_file_line))],
          cnt |-> st.cnt + 1]
    ELSE st

\* The LINE block.
prefix_line(st, p) ==
    IF op_and(curPrefixes, LINE) # NONE
    THEN [x |-> out(out(st.x, IF st.cnt = 0 THEN <<"L", "i", "n", "e", ":", " ">>
                                             ELSE <<":">>),
                    Dec(p.m_file_line)),
          cnt |-> st.cnt + 1]
    ELSE st

\* The FUNCTION block.
prefix_function(st, p) ==
    IF op_and(curPrefixes, FUNCTION) # NONE
    THEN [x |-> out(out(out(st.x, IF st.cnt # 0 THEN <<",", " ">> ELSE <<>>),
                        p.m_func),
                    <<"(", ")">>),
          cnt |-> st.cnt + 1]
    ELSE st

\* The TIME block counting a field whose conversion failed.
prefix_time_counts_failure(st, clk) ==
    IF op_and(curPrefixes, TIME) # NONE
    THEN LET sinceEpoch == clk.now \div 1000
             ms         == clk.now % 1000
             x0         == [st.x EXCEPT !.n_now = @ + 1, !.n_localtime = @ + 1]
         IN  IF clk.local_ok
             THEN LET x1 == out(x0, IF st.cnt # 0 THEN <<",", " ">> ELSE <<>>)
                      x2 == out(out(x1, put_time(localtime(sinceEpoch))), <<".">>)
                      x3 == [x2 EXCEPT !.os = put_setw(setfill(@, "0"), 3, Dec(ms))]
                  IN  [x |-> x3, cnt |-> st.cnt + 1]
             ELSE [x |-> x0, cnt |-> st.cnt + 1]
    ELSE st

\* The TIME block.  clk is what the environment answers: clk.now is
\* system_clock::now() in milliseconds since the epoch, clk.local_ok is
\* whether std::localtime returns a non-null pointer.
prefix_time(st, clk) ==
    IF op_and(curPrefixes, TIME) # NONE
    THEN LET sinceEpoch == clk.now \div 1000
             ms         == clk.now % 1000
             x0         == [st.x EXCEPT !.n_now = @ + 1, !.n_localtime = @ + 1]
         IN  IF clk.local_ok
             THEN LET x1 == out(x0, IF st.cnt # 0 THEN <<",", " ">> ELSE <<>>)
                      x2 == out(out(x1, put_time(localtime(sinceEpoch))), <<".">>)
                      x3 == [x2 EXCEPT !.os = put_setw(setfill(@, "0"), 3, Dec(ms))]
                  IN  [x |-> x3, cnt |-> st.cnt + 1]
             ELSE [x |-> x0, cnt |-> st.cnt]
    ELSE st

\* The THREAD block.  tid is std::this_thread::get_id() of the caller.
prefix_thread(st, tid) ==
    IF op_and(curPrefixes, THREAD) # NONE
    THEN [x |-> out(out([st.x EXCEPT !.n_get_id = @ + 1],
                        IF st.cnt # 0 THEN <<",", " ">> ELSE <<>>),
                    <<"T", "I", "D", ":", " ">> \o Dec(tid)),
          cnt |-> st.cnt + 1]
    ELSE st

\* The final separator.
prefix_final(st) ==
    IF st.cnt # 0 THEN out(st.x, <<":", " ">>) ELSE st.x

\* operator<< of the Prefixer with the THREAD block ahead of the TIME block.
write_Prefixer_thread_first(x, p, clk, tid) ==
    LET y == prefix_final(
                 prefix_time(
                     prefix_thread(
                         prefix_function(
                             prefix_line(
                                 prefix_file([x |-> x, cnt |-> 0], p), p), p), tid), clk))
    IN  [y EXCEPT !.pfx = <<Len(x.os.buf), Len(y.os.buf)>>]

\* std::ostream& operator<<(std::ostream& os, const Prefixer& p)
write_Prefixer(x, p, clk, tid) ==
    LET y == prefix_final(
                 prefix_thread(
                     prefix_time(
                         prefix_function(
                             prefix_line(
                                 prefix_file([x |-> x, cnt |-> 0], p), p), p), clk), tid))
    IN  [y EXCEPT !.pfx = <<Len(x.os.buf), Len(y.os.buf)>>]

----------------------------------------------------------------------------
(* Values and class Stringifier<T>.                                        *)
(*                                                                         *)
(* A value is [cat, const, n, b, s, elems]: cat names its static type,     *)
(* const says whether that type is const-qualified where the value is      *)
(* handed to stringify (T is deduced from the argument, so a const lvalue  *)
(* gives Stringifier<const U>, which none of the specializations match).   *)
(* n, b and s hold an integer, a boolean and a text; elems holds the       *)
(* elements of a container, in iteration order (a stack's top is last, a   *)
(* priority queue's top is first, a map's elements are [first, second]).   *)

Value(cat, n, b, s, elems) ==
    [cat |-> cat, const |-> FALSE, n |-> n, b |-> b, s |-> s, elems |-> elems]

IntV(n)       == Value("int", n, FALSE, <<>>, <<>>)
BoolV(b)      == Value("bool", 0, b, <<>>, <<>>)
CharV(c)      == Value("char", 0, FALSE, <<c>>, <<>>)
StringV(s)    == Value("std::string", 0, FALSE, s, <<>>)
CStrV(s)      == Value("const char*", 0, FALSE, s, <<>>)
Container(cat, elems) == Value(cat, 0, FALSE, <<>>, elems)

\* The value seen through a reference to const.
as_const(v) == [v EXCEPT !.const = TRUE]

CharCats     == {"char", "unsigned char", "signed char"}
TextCats     == {"char*", "const char*", "std::string"}
SequenceCats == {"std::array", "std::vector", "std::deque", "std::forward_list",
                 "std::list", "std::set", "std::multiset", "std::unordered_set",
                 "std::unordered_multiset"}
MapCats      == {"std::map", "std::multimap", "std::unordered_map",
                 "std::unordered_multimap"}
StackCats    == {"std::stack", "std::priority_queue"}
\* The containers whose iterators, or whose top(), give references to const.
ConstElemCats == {"std::set", "std::multiset", "std::unordered_set",
                  "std::unordered_multiset", "std::priority_queue"}

\* stringify(t): Stringifier<T>(t)
stringify(t) == [m_t |-> t]

\* *it, top(), front() or back() at position k of the container t.
elem(t, k) == IF t.cat \in ConstElemCats THEN as_const(t.elems[k]) ELSE t.elems[k]

\* os << s.get_t() of the general template: the stream's own output of the type.
general(x, t) ==
    CASE t.cat = "int" -> out(x, Dec(t.n))
      [] t.cat = "bool" -> out(x, IF t.b THEN <<"1">> ELSE <<"0">>)
      [] t.cat \in CharCats \cup TextCats -> out(x, t.s)

RECURSIVE write_Stringifier(_, _)
RECURSIVE sequence_rest(_, _, _)
RECURSIVE map_rest(_, _, _)

\* The loop "for (; it != m_t.end(); ++it)" of sequence(), it at position k.
sequence_rest(x, t, k) ==
    IF k > Len(t.elems) THEN x
    ELSE sequence_rest(
             write_Stringifier(access(out(x, <<",", " ">>), <<k>>), stringify(elem(t, k))),
             t, k + 1)

\* Stringifier<T>::sequence
sequence(x, t) ==
    LET x1 == out(x, <<"{">>)
        x2 == IF Len(t.elems) # 0
              THEN write_Stringifier(access(x1, <<1>>), stringify(elem(t, 1)))
              ELSE x1
        x3 == sequence_rest(x2, t, IF Len(t.elems) # 0 THEN 2 ELSE 1)
    IN  out(x3, <<"}">>)

\* it->first is const, it->second is not.
map_entry(x, t, k) ==
    LET x1 == write_Stringifier(access(x, <<k>>), stringify(as_const(t.elems[k].first)))
    IN  write_Stringifier(out(x1, <<":", " ">>), stringify(t.elems[k].second))

\* The loop of map(), it at position k.
map_rest(x, t, k) ==
    IF k > Len(t.elems) THEN x
    ELSE map_rest(map_entry(out(x, <<",", " ">>), t, k), t, k + 1)

\* Stringifier<T>::map
map(x, t) ==
    LET x1 == out(x, <<"{">>)
        x2 == IF Len(t.elems) # 0 THEN map_entry(x1, t, 1) ELSE x1
        x3 == map_rest(x2, t, IF Len(t.elems) # 0 THEN 2 ELSE 1)
    IN  out(x3, <<"}">>)

\* m_t.size()
size(t) == Len(t.elems)

\* Position of m_t.top(): the last element pushed on a stack, the first of
\* a priority queue's heap.
top(t) == IF t.cat = "std::priority_queue" THEN 1 ELSE Len(t.elems)

\* Stringifier<T>::stack
stack(x, t) ==
    LET x1 == out(x, <<"{">>)
        x2 == IF size(t) = 1
              THEN write_Stringifier(access(x1, <<top(t)>>), stringify(elem(t, top(t))))
              ELSE IF size(t) # 0
              THEN out(write_Stringifier(access(x1, <<top(t)>>), stringify(elem(t, top(t)))),
                       <<",", " ", ".", ".", ".">>)
              ELSE x1
    IN  out(x2, <<"}">>)

\* Stringifier<T>::queue with the ellipsis from size 2 on.
queue_ellipsis_from_two(x, t) ==
    LET x1 == out(x, <<"{">>)
        fr(y) == write_Stringifier(access(y, <<1>>), stringify(elem(t, 1)))
        bk(y) == write_Stringifier(access(y, <<size(t)>>), stringify(elem(t, size(t))))
        x2 == IF size(t) = 1 THEN fr(x1)
              ELSE IF size(t) # 0
              THEN bk(out(fr(x1), <<",", " ", ".", ".", ".", ",", " ">>))
              ELSE x1
    IN  out(x2, <<"}">>)

\* Stringifier<T>::queue: front() is the first element, back() the last.
queue(x, t) ==
    LET x1 == out(x, <<"{">>)
        fr(y) == write_Stringifier(access(y, <<1>>), stringify(elem(t, 1)))
        bk(y) == write_Stringifier(access(y, <<size(t)>>), stringify(elem(t, size(t))))
        x2 == IF size(t) = 1 THEN fr(x1)
              ELSE IF size(t) = 2 THEN bk(out(fr(x1), <<",", " ">>))
              ELSE IF size(t) # 0
              THEN bk(out(fr(x1), <<",", " ", ".", ".", ".", ",", " ">>))
              ELSE x1
    IN  out(x2, <<"}">>)

\* operator<<(std::ostream&, const Stringifier<T>&): the overload chosen for
\* T.  A const-qualified T matches only the general template.
write_Stringifier(x, s) ==
    LET t == s.m_t
    IN  IF t.const THEN general(x, t)
        ELSE CASE t.cat = "bool" -> out(x, IF t.b THEN <<"t", "r", "u", "e">>
                                                  ELSE <<"f", "a", "l", "s", "e">>)
               [] t.cat \in CharCats -> out(out(out(x, <<"'">>), t.s), <<"'">>)
               [] t.cat \in TextCats -> out(out(out(x, <<"\"">>), t.s), <<"\"">>)
               [] t.cat \in SequenceCats -> sequence(x, t)
               [] t.cat \in MapCats -> map(x, t)
               [] t.cat \in StackCats -> stack(x, t)
               [] t.cat = "std::queue" -> queue(x, t)
               [] OTHER -> general(x, t)

----------------------------------------------------------------------------
(* color_start, color_end, type_name and the record builders *)

\* The byte 033 (ESC).
ESC == "\\033"

\* GL_NEWLINE, at its default '\n'.
GL_NEWLINE == <<"\n">>

\* std::ostream& color_start(std::ostream& os)
color_start(x) ==
    IF colorEnabled THEN out(x, <<ESC, "[", "0", ";", "3", "1", "m">>) ELSE x

\* color_end without the test of colorEnabled.
color_end_unconditional(x) == out(x, <<ESC, "[", "0", "m">>)

\* std::ostream& color_end(std::ostream& os)
color_end(x) ==
    IF colorEnabled THEN out(x, <<ESC, "[", "0", "m">>) ELSE x

\* std::ostream& type_name(std::ostream& os)
type_name(x) ==
    IF op_and(curPrefixes, TYPE_NAME) # NONE THEN out(x, <<"t", "y", "p", "e", " ">>) ELSE x

\* make_array(name, val, len, prefixer): val is the allocation the pointer
\* designates, val[i] of the code is m_val[i + 1] here.
make_array(name, val, len, prefixer) ==
    [m_name |-> name, m_val |-> val, m_len |-> len, m_prefixer |-> prefixer]

\* The array loop stopping one element early: i < len - 1.
RECURSIVE array_rest_short(_, _, _)
array_rest_short(x, a, i) ==
    IF ~(i < a.m_len - 1) THEN x
    ELSE array_rest_short(
             write_Stringifier(access(out(x, <<",", " ">>), <<i>>), stringify(a.m_val[i + 1])),
             a, i + 1)

\* The loop "for (size_t i = 1; i < len; ++i)" of the array output.
RECURSIVE array_rest(_, _, _)
array_rest(x, a, i) ==
    IF ~(i < a.m_len) THEN x
    ELSE array_rest(
             write_Stringifier(access(out(x, <<",", " ">>), <<i>>), stringify(a.m_val[i + 1])),
             a, i + 1)

\* The array output without the test of outputEnabled.
write_Array_unguarded(x, a, clk, tid) ==
    LET x1 == out(out(type_name(write_Prefixer(color_start(x), a.m_prefixer, clk, tid)),
                      a.m_name),
                  <<" ", "=", " ", "{">>)
        x2 == IF a.m_len > 0
              THEN write_Stringifier(access(x1, <<0>>), stringify(a.m_val[1]))
              ELSE x1
        x3 == array_rest(x2, a, 1)
    IN  out(color_end(out(x3, <<"}">>)), GL_NEWLINE)

\* std::ostream& operator<<(std::ostream& os, const Array<U>& a)
write_Array(x, a, clk, tid) ==
    IF outputEnabled
    THEN LET x1 == out(out(type_name(write_Prefixer(color_start(x), a.m_prefixer, clk, tid)),
                           a.m_name),
                       <<" ", "=", " ", "{">>)
             x2 == IF a.m_len > 0
                   THEN write_Stringifier(access(x1, <<0>>), stringify(a.m_val[1]))
                   ELSE x1
             x3 == array_rest(x2, a, 1)
         IN  out(color_end(out(x3, <<"}">>)), GL_NEWLINE)
    ELSE x

\* make_matrix(name, val, cols, rows, prefixer): val[i][j] of the code is
\* m_val[i + 1][j + 1] here.
make_matrix(name, val, cols, rows, prefixer) ==
    [m_name |-> name, m_val |-> val, m_cols |-> cols, m_rows |-> rows,
     m_prefixer |-> prefixer]

\* A matrix entry labelled [j,i].
matrix_entry_label_swapped(x, m, i, j) ==
    LET x1 == out(x, <<",", " ">> \o <<"[">> \o Dec(j) \o <<",">> \o Dec(i)
                         \o <<"]", " ", "=", " ">>)
    IN  write_Stringifier(access(x1, <<i, j>>), stringify(m.m_val[i + 1][j + 1]))

\* ", " << "[" << i << ',' << j << "] = " << stringify(m.get_values()[i][j])
matrix_entry(x, m, i, j) ==
    LET x1 == out(x, <<",", " ">> \o <<"[">> \o Dec(i) \o <<",">> \o Dec(j)
                         \o <<"]", " ", "=", " ">>)
    IN  write_Stringifier(access(x1, <<i, j>>), stringify(m.m_val[i + 1][j + 1]))

\* The loop "for (size_t j = 1; j < cols; ++j)" of row 0.
RECURSIVE matrix_first_row(_, _, _)
matrix_first_row(x, m, j) ==
    IF ~(j < m.m_cols) THEN x
    ELSE matrix_first_row(
             write_Stringifier(
                 access(out(x, <<",", " ">> \o <<"[", "0", ",">> \o Dec(j)
                                   \o <<"]", " ", "=", " ">>),
                        <<0, j>>),
                 stringify(m.m_val[1][j + 1])),
             m, j + 1)

\* The nested loops over the rows 1 .. rows-1, at (i, j).
RECURSIVE matrix_rows(_, _, _, _)
matrix_rows(x, m, i, j) ==
    IF ~(i < m.m_rows) THEN x
    ELSE IF ~(j < m.m_cols) THEN matrix_rows(x, m, i + 1, 0)
    ELSE matrix_rows(matrix_entry(x, m, i, j), m, i, j + 1)

\* std::ostream& operator<<(std::ostream& os, const Matrix<U>& m)
write_Matrix(x, m, clk, tid) ==
    IF outputEnabled
    THEN LET x1 == out(out(type_name(write_Prefixer(color_start(x), m.m_prefixer, clk, tid)),
                           m.m_name),
                       <<":", " ">>)
             x2 == IF m.m_cols <= 0 \/ m.m_rows <= 0
                   THEN out(x1, <<"{", "}">>)
                   ELSE LET y1 == write_Stringifier(
                                      access(out(x1, <<"[", "0", ",", "0", "]", " ", "=", " ">>),
                                             <<0, 0>>),
                                      stringify(m.m_val[1][1]))
                        IN  matrix_rows(matrix_first_row(y1, m, 1), m, 1, 0)
         IN  out(color_end(x2), GL_NEWLINE)
    ELSE x

\* GL_INTERNAL_LX(v): v is [text, value], text being #v.
GL_INTERNAL_LX(x, v) ==
    write_Stringifier(out(out(type_name(x), v.text), <<" ", "=", " ">>), stringify(v.value))

\* The builders with type_name ahead of the first pair only.
RECURSIVE GL_INTERNAL_L_type_once(_, _, _)
GL_INTERNAL_L_type_once(k, x, args) ==
    IF k = 1 THEN GL_INTERNAL_LX(x, args[1])
    ELSE LET prev == GL_INTERNAL_L_type_once(k - 1, x, args)
         IN  IF Len(prev.os.buf) >= 0
             THEN write_Stringifier(
                      out(out(out(prev, <<",", " ">>), args[k].text), <<" ", "=", " ">>),
                      stringify(args[k].value))
             ELSE prev

\* GL_INTERNAL_Lk(v1, ..., vk), k = 1 .. 16: GL_INTERNAL_L(k-1) of the first
\* k - 1 expressions, ", ", and the k-th pair.  prev is the stream after the
\* first k - 1 pairs; its test is always true and has the chain of <<
\* evaluated from the left, pair by pair.
RECURSIVE GL_INTERNAL_L(_, _, _)
GL_INTERNAL_L(k, x, args) ==
    IF k = 1 THEN GL_INTERNAL_LX(x, args[1])
    ELSE LET prev == GL_INTERNAL_L(k - 1, x, args)
         IN  IF Len(prev.os.buf) >= 0
             THEN GL_INTERNAL_LX(out(prev, <<",", " ">>), args[k])
             ELSE prev

\* The name GL_INTERNAL_Ln, and an argument of a macro call that has no
\* token in it.
Builder(n) == [name |-> "GL_INTERNAL_L", n |-> n]
IsBuilder(a) == "n" \in DOMAIN a
Empty == [text |-> <<>>]

\* __VA_ARGS__ of l(...): the expressions written between the parentheses;
\* one argument without tokens when nothing is written there.
VA_ARGS(args) == IF Len(args) = 0 THEN <<Empty>> ELSE args

\* GL_INTERNAL_L_DISPATCH(__VA_ARGS__, GL_INTERNAL_L16, ..., GL_INTERNAL_L1, ):
\* the argument in position 17 of the list.
GL_INTERNAL_L_DISPATCH(va_args) ==
    (va_args \o [i \in 1..16 |-> Builder(17 - i)] \o <<Empty>>)[17]

\* What the translator makes of NAME(__VA_ARGS__) in the expansion of l(...).
\* A builder expands to one GL_INTERNAL_LX(v) per argument, and
\* stringify(()) of an argument without tokens is not an expression.  Any
\* other name is the 17th expression of the call, applied to the whole
\* list: well formed only if that expression can be called with it.
well_formed(va_args) ==
    LET NAME == GL_INTERNAL_L_DISPATCH(va_args)
    IN  IF IsBuilder(NAME)
        THEN Len(va_args) = NAME.n /\ \A i \in 1..Len(va_args) : va_args[i].text # <<>>
        ELSE NAME.text # <<>> /\ NAME.invocable

\* NAME(__VA_ARGS__) written to the stream.
write_NAME(x, args) ==
    LET NAME == GL_INTERNAL_L_DISPATCH(VA_ARGS(args))
    IN  IF IsBuilder(NAME) THEN GL_INTERNAL_L(NAME.n, x, args)
        ELSE general(x, NAME.returns)

\* l(...) without the test of outputEnabled.
l_unguarded(x, ctx, args, clk, tid) ==
    LET x1 == write_Prefixer(color_start(x), Prefixer(ctx.file, ctx.line, ctx.func),
                             clk, tid)
        x2 == write_NAME(x1, args)
    IN  out(color_end(x2), GL_NEWLINE)

\* The macro l(...), at a call site ctx = [file, line, func].
l(x, ctx, args, clk, tid) ==
    IF outputEnabled
    THEN LET x1 == write_Prefixer(color_start(x), Prefixer(ctx.file, ctx.line, ctx.func),
                                  clk, tid)
             x2 == write_NAME(x1, args)
         IN  out(color_end(x2), GL_NEWLINE)
    ELSE x

\* The macro l_arr(v, len).
l_arr(x, ctx, name, v, len, clk, tid) ==
    write_Array(x, make_array(name, v, len, Prefixer(ctx.file, ctx.line, ctx.func)), clk, tid)

\* The macro l_mat(m, cols, rows).
l_mat(x, ctx, name, m, cols, rows, clk, tid) ==
    write_Matrix(x, make_matrix(name, m, cols, rows, Prefixer(ctx.file, ctx.line, ctx.func)),
                 clk, tid)

----------------------------------------------------------------------------
(* The public functions and the three macros as actions.  Every call       *)
(* starts with an empty cout.buf, so cout.buf is what that call wrote;     *)
(* cout.fill is carried over from call to call.                            *)

\* What a call that does not sample the clock, or does not ask for the
\* thread id, records in place of the environment's answer.
NoClock == [now |-> 0, local_ok |-> FALSE]
NoTid == 0

\* Clock readings in milliseconds since the epoch: 09:05:03.007,
\* 23:59:59.123 and 12:34:56.040, the last with a failing local-time
\* conversion.
Clocks ==
    {[now |-> 32703007, local_ok |-> TRUE],
     [now |-> 86399123, local_ok |-> TRUE],
     [now |-> 45296040, local_ok |-> FALSE]}

\* The identifiers of the calling thread.
ThreadIds == {1, 23}

fresh == start([buf |-> <<>>, fill |-> cout.fill])

no_env == [n_now |-> 0, n_localtime |-> 0, n_get_id |-> 0]

\* The effect of an emission that ran as x on the stream and on the history.
emitted(x, c, clk, tid) ==
    /\ cout' = x.os
    /\ reads' = x.rd
    /\ call' = [c EXCEPT !.clk = IF x.n_now > 0 THEN clk ELSE NoClock,
                         !.tid = IF x.n_get_id > 0 THEN tid ELSE NoTid,
                         !.env = [n_now |-> x.n_now, n_localtime |-> x.n_localtime,
                                  n_get_id |-> x.n_get_id],
                         !.pfx = x.pfx]
    /\ ret' = "void"
    /\ UNCHANGED <<curPrefixes, outputEnabled, colorEnabled, lastSet>>

\* A call that writes nothing and reads no element.
quiet(c, r) ==
    /\ cout' = fresh.os
    /\ reads' = <<>>
    /\ call' = c
    /\ ret' = r

\* prefix get_prefixes()
get_prefixes ==
    /\ quiet([op |-> "get_prefixes"], curPrefixes)
    /\ UNCHANGED <<curPrefixes, outputEnabled, colorEnabled, lastSet>>

\* void set_prefixes(prefix p)
set_prefixes(p) ==
    /\ curPrefixes' = p
    /\ lastSet' = [lastSet EXCEPT !.prefixes = p]
    /\ quiet([op |-> "set_prefixes", p |-> p], "void")
    /\ UNCHANGED <<outputEnabled, colorEnabled>>

\* bool is_output_enabled()
is_output_enabled ==
    /\ quiet([op |-> "is_output_enabled"], outputEnabled)
    /\ UNCHANGED <<curPrefixes, outputEnabled, colorEnabled, lastSet>>

\* set_output_enabled that can only enable.
set_output_enabled_sticky(e) ==
    /\ outputEnabled' = (outputEnabled \/ e)
    /\ lastSet' = [lastSet EXCEPT !.output = e]
    /\ quiet([op |-> "set_output_enabled", e |-> e], "void")
    /\ UNCHANGED <<curPrefixes, colorEnabled>>

\* void set_output_enabled(bool e)
set_output_enabled(e) ==
    /\ outputEnabled' = e
    /\ lastSet' = [lastSet EXCEPT !.output = e]
    /\ quiet([op |-> "set_output_enabled", e |-> e], "void")
    /\ UNCHANGED <<curPrefixes, colorEnabled>>

\* set_color_enabled assigning the wrong flag.
set_color_enabled_slip(e) ==
    /\ outputEnabled' = e
    /\ lastSet' = [lastSet EXCEPT !.color = e]
    /\ quiet([op |-> "set_color_enabled", e |-> e], "void")
    /\ UNCHANGED <<curPrefixes, colorEnabled>>

\* void set_color_enabled(bool e)
set_color_enabled(e) ==
    /\ colorEnabled' = e
    /\ lastSet' = [lastSet EXCEPT !.color = e]
    /\ quiet([op |-> "set_color_enabled", e |-> e], "void")
    /\ UNCHANGED <<curPrefixes, outputEnabled>>

\* bool is_color_enabled()
is_color_enabled ==
    /\ quiet([op |-> "is_color_enabled"], colorEnabled)
    /\ UNCHANGED <<curPrefixes, outputEnabled, colorEnabled, lastSet>>

\* The answers the environment can give to a call that runs as x: one per
\* clock reading and thread id when x asks for them, none otherwise.
clocks_asked(x) == IF x.n_now > 0 THEN Clocks ELSE {NoClock}
tids_asked(x) == IF x.n_get_id > 0 THEN ThreadIds ELSE {NoTid}

\* A statement l(v1, ..., vk);
call_l(ctx, args) ==
    LET asks == l(fresh, ctx, args, NoClock, NoTid)
    IN  \E clk \in clocks_asked(asks), tid \in tids_asked(asks) :
            emitted(l(fresh, ctx, args, clk, tid),
                    [op |-> "l", ctx |-> ctx, args |-> args, clk |-> clk, tid |-> tid,
                     env |-> no_env, pfx |-> <<0, 0>>],
                    clk, tid)

\* A statement l_arr(v, len);  a is [name, val, len].
call_l_arr(ctx, a) ==
    LET asks == l_arr(fresh, ctx, a.name, a.val, a.len, NoClock, NoTid)
    IN  \E clk \in clocks_asked(asks), tid \in tids_asked(asks) :
            emitted(l_arr(fresh, ctx, a.name, a.val, a.len, clk, tid),
                    [op |-> "l_arr", ctx |-> ctx, arr |-> a, clk |-> clk, tid |-> tid,
                     env |-> no_env, pfx |-> <<0, 0>>],
                    clk, tid)

\* A statement l_mat(m, cols, rows);  m is [name, val, cols, rows].
call_l_mat(ctx, m) ==
    LET asks == l_mat(fresh, ctx, m.name, m.val, m.cols, m.rows, NoClock, NoTid)
    IN  \E clk \in clocks_asked(asks), tid \in tids_asked(asks) :
            emitted(l_mat(fresh, ctx, m.name, m.val, m.cols, m.rows, clk, tid),
                    [op |-> "l_mat", ctx |-> ctx, mat |-> m, clk |-> clk, tid |-> tid,
                     env |-> no_env, pfx |-> <<0, 0>>],
                    clk, tid)

\* An expression "lhs op rhs" or "lhs op= rhs" over two prefix variables of
\* the caller, held in call as lhs and rhs; was is lhs before the operator.
binary_operator(name, r) ==
    /\ quiet([op |-> name, was |-> call.lhs, lhs |-> call.lhs, rhs |-> call.rhs], r)
    /\ UNCHANGED <<curPrefixes, outputEnabled, colorEnabled, lastSet>>

assignment_operator(name, r) ==
    /\ quiet([op |-> name, was |-> call.lhs, lhs |-> r.lhs, rhs |-> call.rhs], r.ret)
    /\ UNCHANGED <<curPrefixes, outputEnabled, colorEnabled, lastSet>>

call_op_and == binary_operator("operator&", op_and(call.lhs, call.rhs))
call_op_or == binary_operator("operator|", op_or(call.lhs, call.rhs))
call_op_xor == binary_operator("operator^", op_xor(call.lhs, call.rhs))
call_op_and_assign == assignment_operator("operator&=", op_and_assign(call.lhs, call.rhs))
call_op_or_assign == assignment_operator("operator|=", op_or_assign(call.lhs, call.rhs))
call_op_xor_assign == assignment_operator("operator^=", op_xor_assign(call.lhs, call.rhs))

\* What a later call can observe of the library's state: the three
\* configuration fields and the formatting state of the stream.
observable ==
    [prefixes |-> curPrefixes, output |-> outputEnabled, color |-> colorEnabled,
     fill |-> cout.fill]

\* The statements "set_output_enabled(x); set_output_enabled(!x);
\* set_output_enabled(x);" of thread t, one call per step.  seen is what
\* was observable before the first call, first what was after it.
toggle_first(t, x) ==
    /\ threads[t].pc \in {"idle", "toggled"}
    /\ set_output_enabled(x)
    /\ threads' = [threads EXCEPT ![t] = [pc |-> "toggle_1", x |-> x, seen |-> observable,
                                          first |-> observable']]

toggle_second(t) ==
    /\ threads[t].pc = "toggle_1"
    /\ set_output_enabled(~threads[t].x)
    /\ threads' = [threads EXCEPT ![t].pc = "toggle_2"]

toggle_third(t) ==
    /\ threads[t].pc = "toggle_2"
    /\ set_output_enabled(threads[t].x)
    /\ threads' = [threads EXCEPT ![t].pc = "toggled"]

\* The translation of a statement l(...); of the source: the expansion is
\* accepted or rejected.
translate ==
    /\ call.op = "source"
    /\ quiet([call EXCEPT !.op = "translate",
                          !.name = GL_INTERNAL_L_DISPATCH(VA_ARGS(call.args))],
             IF well_formed(VA_ARGS(call.args)) THEN "accepted" ELSE "rejected")
    /\ UNCHANGED <<curPrefixes, outputEnabled, colorEnabled, lastSet>>

\* The statement run, in a program that was accepted.
run(ctx) ==
    /\ call.op = "translate"
    /\ ret = "accepted"
    /\ call_l(ctx, call.args)

\* The statements "l(v); ...; l(v);" of thread t: the same expression
\* emitted twice from the same file and function, the second time from the
\* line given.  first is the first call and the bytes it wrote.
twice_first(t, ctx, args) ==
    /\ threads[t].pc \in {"idle", "twice"}
    /\ call_l(ctx, args)
    /\ threads' = [threads EXCEPT ![t] = [pc |-> "once",
                                          first |-> [call |-> call', out |-> cout'.buf]]]

twice_second(t, line) ==
    /\ threads[t].pc = "once"
    /\ call_l([threads[t].first.call.ctx EXCEPT !.line = line], threads[t].first.call.args)
    /\ call'.tid = threads[t].first.call.tid
    /\ threads' = [threads EXCEPT ![t].pc = "twice"]

----------------------------------------------------------------------------
(* The emissions write by write.  A record reaches std::cout as a chain    *)
(* of operator<< calls, each of which reads the configuration it needs     *)
(* when it runs; nothing in the library takes a lock.  Below, a thread of  *)
(* the caller runs one statement at a time and an emission is a sequence   *)
(* of steps, one per manipulator, prefix block, pair or element, all on    *)
(* the one stream cout, whose buf here accumulates what every thread       *)
(* wrote.  threads[t] is [pc, n, m, stmt, cnt, k, frags]: the position,    *)
(* the number of statements finished, the number of them that were         *)
(* emissions, the statement, cnt of the Prefixer, the index of the next    *)
(* pair or element, and the spans of cout.buf that the steps of the        *)
(* present record wrote (bytes from + 1 .. to).                            *)

\* The statements each thread runs, and the emissions among them.
MaxStatements == 2
MaxRecords == 1

no_stmt == [op |-> "none"]

idle(t) == threads[t].pc = "idle" /\ threads[t].n < MaxStatements

\* The statement of thread t is finished.
finished(t) == [threads[t] EXCEPT !.pc = "idle", !.n = @ + 1]

\* Thread t calls a setter.
thread_set_prefixes(t, p) ==
    /\ idle(t)
    /\ curPrefixes' = p
    /\ threads' = [threads EXCEPT ![t] = finished(t)]
    /\ UNCHANGED <<outputEnabled, colorEnabled, cout, call, ret, reads, lastSet>>

thread_set_output_enabled(t, e) ==
    /\ idle(t)
    /\ outputEnabled' = e
    /\ threads' = [threads EXCEPT ![t] = finished(t)]
    /\ UNCHANGED <<curPrefixes, colorEnabled, cout, call, ret, reads, lastSet>>

thread_set_color_enabled(t, e) ==
    /\ idle(t)
    /\ colorEnabled' = e
    /\ threads' = [threads EXCEPT ![t] = finished(t)]
    /\ UNCHANGED <<curPrefixes, outputEnabled, cout, call, ret, reads, lastSet>>

\* Thread t reaches a statement l(...) or l_arr(...): "if (outputEnabled)".
begin(t, stmt) ==
    /\ idle(t)
    /\ threads[t].m < MaxRecords
    /\ threads' = [threads EXCEPT ![t] =
                       IF outputEnabled
                       THEN [pc |-> "color_start", n |-> @.n, m |-> @.m + 1, stmt |-> stmt,
                             cnt |-> 0, k |-> 0, frags |-> <<>>]
                       ELSE [finished(t) EXCEPT !.m = @ + 1, !.stmt = stmt, !.frags = <<>>]]
    /\ UNCHANGED <<curPrefixes, outputEnabled, colorEnabled, cout, call, ret, reads, lastSet>>

begin_l(t, ctx, args) ==
    /\ idle(t)
    /\ begin(t, [op |-> "l", ctx |-> ctx, args |-> args])

begin_l_arr(t, ctx, a) ==
    /\ idle(t)
    /\ begin(t, [op |-> "l_arr", ctx |-> ctx,
                 arr |-> make_array(a.name, a.val, a.len,
                                    Prefixer(ctx.file, ctx.line, ctx.func))])

\* l_mat(m, cols, rows): std::cout << make_matrix(#m, m, cols, rows, Prefixer(...))
begin_l_mat(t, ctx, m) ==
    /\ idle(t)
    /\ begin(t, [op |-> "l_mat", ctx |-> ctx,
                 mat |-> make_matrix(m.name, m.val, m.cols, m.rows,
                                     Prefixer(ctx.file, ctx.line, ctx.func))])

\* wrote with outputEnabled tested again at every operator<<.
wrote_while_enabled(t, x, pc, cnt, k) ==
    /\ cout' = IF outputEnabled THEN x.os ELSE cout
    /\ threads' = [threads EXCEPT ![t] =
                       [(IF pc = "idle" THEN finished(t) ELSE [@ EXCEPT !.pc = pc])
                           EXCEPT !.cnt = cnt, !.k = k,
                                  !.frags = IF outputEnabled /\ Len(x.os.buf) > Len(cout.buf)
                                            THEN Append(@, <<Len(cout.buf), Len(x.os.buf)>>)
                                            ELSE @]]
    /\ UNCHANGED <<curPrefixes, outputEnabled, colorEnabled, call, ret, reads, lastSet>>

\* wrote with the stream locked by the thread whose record is under way.
wrote_locked(t, x, pc, cnt, k) ==
    /\ \A u \in ThreadIds \ {t} : threads[u].pc = "idle" \/ threads[u].frags = <<>>
    /\ cout' = x.os
    /\ threads' = [threads EXCEPT ![t] =
                       [(IF pc = "idle" THEN finished(t) ELSE [@ EXCEPT !.pc = pc])
                           EXCEPT !.cnt = cnt, !.k = k,
                                  !.frags = IF Len(x.os.buf) > Len(cout.buf)
                                            THEN Append(@, <<Len(cout.buf), Len(x.os.buf)>>)
                                            ELSE @]]
    /\ UNCHANGED <<curPrefixes, outputEnabled, colorEnabled, call, ret, reads, lastSet>>

\* One operator<< of thread t has run as x on cout; the thread goes on at
\* pc with cnt and k.
wrote(t, x, pc, cnt, k) ==
    /\ cout' = x.os
    /\ threads' = [threads EXCEPT ![t] =
                       [(IF pc = "idle" THEN finished(t) ELSE [@ EXCEPT !.pc = pc])
                           EXCEPT !.cnt = cnt, !.k = k,
                                  !.frags = IF Len(x.os.buf) > Len(cout.buf)
                                            THEN Append(@, <<Len(cout.buf), Len(x.os.buf)>>)
                                            ELSE @]]
    /\ UNCHANGED <<curPrefixes, outputEnabled, colorEnabled, call, ret, reads, lastSet>>

\* The Prefixer of the statement of thread t.
prefixer_of(t) ==
    LET stmt == threads[t].stmt
    IN  IF stmt.op = "l_arr" THEN stmt.arr.m_prefixer
        ELSE IF stmt.op = "l_mat" THEN stmt.mat.m_prefixer
        ELSE Prefixer(stmt.ctx.file, stmt.ctx.line, stmt.ctx.func)

\* ... << color_start
step_color_start(t) ==
    /\ threads[t].pc = "color_start"
    /\ wrote(t, color_start(start(cout)), "file", 0, 0)

\* ... << Prefixer(...), block by block; what a block wrote and counted.
block(t, pc, st) ==
    wrote(t, st.x, pc, st.cnt, 0)

step_file(t) ==
    /\ threads[t].pc = "file"
    /\ block(t, "line", prefix_file([x |-> start(cout), cnt |-> threads[t].cnt], prefixer_of(t)))

step_line(t) ==
    /\ threads[t].pc = "line"
    /\ block(t, "function",
             prefix_line([x |-> start(cout), cnt |-> threads[t].cnt], prefixer_of(t)))

step_function(t) ==
    /\ threads[t].pc = "function"
    /\ block(t, "time",
             prefix_function([x |-> start(cout), cnt |-> threads[t].cnt], prefixer_of(t)))

step_time(t) ==
    /\ threads[t].pc = "time"
    /\ LET st == [x |-> start(cout), cnt |-> threads[t].cnt]
       IN  \E clk \in clocks_asked(prefix_time(st, NoClock).x) :
               block(t, "thread", prefix_time(st, clk))

step_thread(t) ==
    /\ threads[t].pc = "thread"
    /\ block(t, "final", prefix_thread([x |-> start(cout), cnt |-> threads[t].cnt], t))

step_final(t) ==
    /\ threads[t].pc = "final"
    /\ wrote(t, prefix_final([x |-> start(cout), cnt |-> threads[t].cnt]),
               IF threads[t].stmt.op = "l_arr" THEN "head"
               ELSE IF threads[t].stmt.op = "l_mat" THEN "mat_head"
               ELSE "pair",
               threads[t].cnt, 1)

\* ... << GL_INTERNAL_Lk(v1, ..., vk): the k-th pair, after ", " when k > 1.
step_pair(t) ==
    /\ threads[t].pc = "pair"
    /\ LET k    == threads[t].k
           args == threads[t].stmt.args
           x    == IF k > 1 THEN out(start(cout), <<",", " ">>) ELSE start(cout)
       IN  wrote(t, GL_INTERNAL_LX(x, args[k]),
                   IF k < Len(args) THEN "pair" ELSE "color_end", threads[t].cnt, k + 1)

\* os << ... << type_name << a.get_name() << " = {"
step_head(t) ==
    /\ threads[t].pc = "head"
    /\ LET a == threads[t].stmt.arr
       IN  wrote(t, out(out(type_name(start(cout)), a.m_name), <<" ", "=", " ", "{">>),
                   IF a.m_len > 0 THEN "elem" ELSE "tail", threads[t].cnt, 0)

\* os << stringify(a.get_values()[0]) and os << ", " << stringify(...[i])
step_elem(t) ==
    /\ threads[t].pc = "elem"
    /\ LET a == threads[t].stmt.arr
           i == threads[t].k
           x == IF i > 0 THEN out(start(cout), <<",", " ">>) ELSE start(cout)
       IN  wrote(t, write_Stringifier(access(x, <<i>>), stringify(a.m_val[i + 1])),
                   IF i + 1 < a.m_len THEN "elem" ELSE "tail", threads[t].cnt, i + 1)

\* os << '}'
step_tail(t) ==
    /\ threads[t].pc = "tail"
    /\ wrote(t, out(start(cout), <<"}">>), "color_end", threads[t].cnt, threads[t].k)

\* color_end writing the end sequence when the record began with the
\* start sequence.
step_color_end_as_started(t) ==
    /\ threads[t].pc = "color_end"
    /\ LET f == threads[t].frags
           colored == Len(f) > 0 /\ cout.buf[f[1][1] + 1] = ESC
       IN  wrote(t, IF colored THEN color_end_unconditional(start(cout)) ELSE start(cout),
                 "newline", threads[t].cnt, threads[t].k)

\* ... << color_end
step_color_end(t) ==
    /\ threads[t].pc = "color_end"
    /\ wrote(t, color_end(start(cout)), "newline", threads[t].cnt, threads[t].k)

\* ... << (GL_NEWLINE)
step_newline(t) ==
    /\ threads[t].pc = "newline"
    /\ wrote(t, out(start(cout), GL_NEWLINE), "idle", threads[t].cnt, threads[t].k)

\* The next operator<< of the emission thread t is in.
step(t) ==
    \/ step_color_start(t)
    \/ step_file(t)
    \/ step_line(t)
    \/ step_function(t)
    \/ step_time(t)
    \/ step_thread(t)
    \/ step_final(t)
    \/ step_pair(t)
    \/ step_head(t)
    \/ step_elem(t)
    \/ step_tail(t)
    \/ step_color_end(t)
    \/ step_newline(t)

\* os << ... << type_name << m.get_name() << ": "
step_mat_head(t) ==
    /\ threads[t].pc = "mat_head"
    /\ LET m == threads[t].stmt.mat
       IN  wrote(t, out(out(type_name(start(cout)), m.m_name), <<":", " ">>),
                   IF m.m_cols <= 0 \/ m.m_rows <= 0 THEN "mat_empty" ELSE "mat_first",
                   threads[t].cnt, 0)

\* os << "{}"
step_mat_empty(t) ==
    /\ threads[t].pc = "mat_empty"
    /\ wrote(t, out(start(cout), <<"{", "}">>), "color_end", threads[t].cnt, threads[t].k)

\* Where the loops of a matrix stand after the entry of row-major index k.
after_entry(m, k) == IF k + 1 < m.m_rows * m.m_cols THEN "mat_entry" ELSE "color_end"

\* os << "[0,0] = " << stringify(m.get_values()[0][0])
step_mat_first(t) ==
    /\ threads[t].pc = "mat_first"
    /\ LET m == threads[t].stmt.mat
       IN  wrote(t, write_Stringifier(
                        access(out(start(cout), <<"[", "0", ",", "0", "]", " ", "=", " ">>),
                               <<0, 0>>),
                        stringify(m.m_val[1][1])),
                   after_entry(m, 0), threads[t].cnt, 1)

\* The body of the loop over row 0, and of the nested loops over the other
\* rows, at the entry of row-major index k.
step_mat_entry(t) ==
    /\ threads[t].pc = "mat_entry"
    /\ LET m == threads[t].stmt.mat
           k == threads[t].k
           i == k \div m.m_cols
           j == k % m.m_cols
           x == IF i = 0
                THEN write_Stringifier(
                         access(out(start(cout), <<",", " ">> \o <<"[", "0", ",">> \o Dec(j)
                                                     \o <<"]", " ", "=", " ">>),
                                <<0, j>>),
                         stringify(m.m_val[1][j + 1]))
                ELSE matrix_entry(start(cout), m, i, j)
       IN  wrote(t, x, after_entry(m, k), threads[t].cnt, k + 1)

\* The next operator<< of the matrix writer of thread t is in.
step_matrix(t) ==
    \/ step_mat_head(t)
    \/ step_mat_empty(t)
    \/ step_mat_first(t)
    \/ step_mat_entry(t)

\* The state after static initialization.
Init ==
    /\ curPrefixes = op_or(FILE, LINE)
    /\ outputEnabled = TRUE
    /\ colorEnabled = FALSE
    /\ cout = [buf |-> <<>>, fill |-> " "]
    /\ call = [op |-> "init"]
    /\ ret = "void"
    /\ reads = <<>>
    /\ lastSet = [prefixes |-> 3, output |-> TRUE, color |-> FALSE]
    /\ threads = [t \in ThreadIds |-> [pc |-> "idle"]]

----------------------------------------------------------------------------
(* The inputs of the calls. *)

MaxPathLen == 2
MaxLen == 2
MaxCols == 2
MaxRows == 2
MaxSize == 3

\* The number of builders GL_INTERNAL_L1 .. GL_INTERNAL_L16.
MaxArity == 16

SeqsUpTo(S, n) == UNION {[1..k -> S] : k \in 0..n}

Masks == 0..63

PathChars == {"a", sep}
Paths == SeqsUpTo(PathChars, MaxPathLen)
Lines == {7, 68}
Funcs == {<<"m", "a", "i", "n">>}

Contexts(paths) ==
    {[file |-> f, line |-> ln, func |-> fn] : f \in paths, ln \in Lines, fn \in Funcs}

\* The values lists are filled with, one of each kind of static type.
Pool ==
    <<IntV(1), StringV(<<"s">>), BoolV(TRUE), as_const(StringV(<<"s">>)), CharV("c"),
      Container("std::stack", <<IntV(1), IntV(2)>>),
      Container("std::vector", <<IntV(3), IntV(4)>>), IntV(-5)>>

\* #v of the i-th expression.
ArgText(i) == <<"v">> \o Dec(i)

\* The list of k pairs whose values run through Pool from offset off.
ScalarList(k, off) ==
    [i \in 1..k |-> [text |-> ArgText(i), value |-> Pool[((i + off) % Len(Pool)) + 1]]]

ScalarLists(arities, offs) == {ScalarList(k, off) : k \in arities, off \in offs}

\* Lists l(v1) of one container.
ContainerLists(values) == {<<[text |-> ArgText(1), value |-> v]>> : v \in values}

\* Stacks and priority queues of at most n integers or texts.  A priority
\* queue holds its elements as a heap under std::less: no element is less
\* than its child.
IntElems == {IntV(1), IntV(2)}
TextElems == {StringV(<<"a">>), StringV(<<"b">>)}
Rank(v) == IF v.cat = "int" THEN v.n ELSE IF v.s = <<"a">> THEN 1 ELSE 2
IsHeap(e) == \A i \in 2..Len(e) : Rank(e[i \div 2]) >= Rank(e[i])
Stacks(n) ==
    {Container("std::stack", e) : e \in SeqsUpTo(IntElems, n) \cup SeqsUpTo(TextElems, n)}
PriorityQueues(n) ==
    {Container("std::priority_queue", e) :
        e \in {h \in SeqsUpTo(IntElems, n) \cup SeqsUpTo(TextElems, n) : IsHeap(h)}}

\* Queues of at most n integers, texts or vectors.
VectorElems == {Container("std::vector", <<IntV(1), IntV(2)>>), Container("std::vector", <<>>)}
Queues(n) ==
    {Container("std::queue", e) :
        e \in SeqsUpTo(IntElems, n) \cup SeqsUpTo(TextElems, n) \cup SeqsUpTo(VectorElems, n)}

\* Sequence containers of at most n elements, some of them nested.
Vectors(n) ==
    {Container("std::vector", e) :
        e \in SeqsUpTo(IntElems, n) \cup SeqsUpTo(TextElems, n) \cup SeqsUpTo(VectorElems, n)}
Lists == {Container("std::list", <<CharV("c"), CharV("d")>>),
          Container("std::deque", <<BoolV(TRUE), BoolV(FALSE)>>),
          Container("std::array", <<CStrV(<<"a">>)>>)}

\* Sets iterate in increasing order without repetition.
IsIncreasing(e) == \A i \in 2..Len(e) : Rank(e[i - 1]) < Rank(e[i])
Sets(n) ==
    {Container("std::set", e) :
        e \in {h \in SeqsUpTo(IntElems, n) \cup SeqsUpTo(TextElems, n) : IsIncreasing(h)}}

\* Maps hold entries [first, second] in increasing order of the keys.
Entries(keys, vals) == {[first |-> k, second |-> v] : k \in keys, v \in vals}
IsIncreasingKeys(e) == \A i \in 2..Len(e) : Rank(e[i - 1].first) < Rank(e[i].first)
Maps(n) ==
    {Container("std::map", e) :
        e \in {h \in SeqsUpTo(Entries(IntElems, TextElems \cup VectorElems), n)
                        \cup SeqsUpTo(Entries(TextElems, IntElems), n) :
                 IsIncreasingKeys(h)}}

ArrayElems == {IntV(3), IntV(14)}

\* Arrays: every allocation of at most n elements, every length within it.
Arrays(n) ==
    {[name |-> <<"a">>, val |-> v, len |-> len] :
        <<v, len>> \in {y \in SeqsUpTo(ArrayElems, n) \X (0..n) : y[2] <= Len(y[1])}}

\* The matrix {{11, 12, ...}, {21, 22, ...}, ...} of r rows and c columns.
MatrixVal(r, c) == [i \in 1..r |-> [j \in 1..c |-> IntV(10 * i + j)]]

\* Matrices: the allocation of r rows and c columns, every cols and rows within it.
Matrices(r, c) ==
    {[name |-> <<"m">>, val |-> MatrixVal(r, c), cols |-> cols, rows |-> rows] :
        cols \in 0..c, rows \in 0..r}

----------------------------------------------------------------------------
(* Specifications. *)

\* A step of a program that calls the library with arguments from the given sets.
Step(masks, outs, colors, ctxs, lists, actxs, arrays, mats) ==
    /\ \/ get_prefixes
       \/ \E p \in masks : set_prefixes(p)
       \/ is_output_enabled
       \/ \E e \in outs : set_output_enabled(e)
       \/ is_color_enabled
       \/ \E e \in colors : set_color_enabled(e)
       \/ \E ctx \in ctxs, args \in lists : call_l(ctx, args)
       \/ \E ctx \in actxs, a \in arrays : call_l_arr(ctx, a)
       \/ \E ctx \in actxs, m \in mats : call_l_mat(ctx, m)
    /\ UNCHANGED threads

\* The call site of scenario S1: main.ext, line 68.
Site == [file |-> <<"a", sep, "a">>, line |-> 68, func |-> <<"m", "a", "i", "n">>]

\* The arguments of the calls of each specification.
InterfaceLists == ScalarLists({1, 2}, {0})
OneScalar == ScalarLists({1}, {0})
TwoPairs == ScalarList(2, 0)
OneArrays == Arrays(1)
OneMatrices == Matrices(1, 1)
NoArrays == Arrays(0)
NoMatrices == Matrices(0, 0)
CallSites == Contexts(Paths)
BuilderLists ==
    ScalarLists(1..MaxArity, {0, 3})
        \cup ContainerLists(Stacks(MaxSize) \cup PriorityQueues(MaxSize))
BuilderArrays == Arrays(MaxLen)
BuilderMatrices == Matrices(MaxRows, MaxCols)
FormatterLists ==
    ContainerLists(Queues(MaxSize) \cup Vectors(MaxSize) \cup Lists
                       \cup Sets(MaxSize) \cup Maps(MaxSize))

\* The whole interface: every mask and flag, a few arguments of each shape.
Next ==
    Step(Masks, BOOLEAN, BOOLEAN, {Site}, InterfaceLists, {Site}, OneArrays, OneMatrices)

Spec == Init /\ [][Next]_vars

\* The decorator: every mask, every path of at most MaxPathLen characters,
\* output enabled and color off, one record of each shape.
NextPrefixer ==
    Step(Masks, {TRUE}, {FALSE}, CallSites, OneScalar, {Site}, NoArrays, NoMatrices)

SpecPrefixer == Init /\ [][NextPrefixer]_vars

\* The record builders: masks with and without TYPE_NAME, lists of every
\* arity, stacks and priority queues, arrays and matrices of every size
\* within the bounds.
BuilderMasks == {NONE, TYPE_NAME, op_or(FILE, LINE), op_or(op_or(FILE, LINE), TYPE_NAME)}

NextBuilders ==
    Step(BuilderMasks, BOOLEAN, BOOLEAN, {Site}, BuilderLists, {Site}, BuilderArrays,
         BuilderMatrices)

SpecBuilders == Init /\ [][NextBuilders]_vars

\* The formatter: queues, sequences, sets and maps of every size within the
\* bound, as the one expression of a list.
NextFormatter ==
    Step({NONE, TYPE_NAME}, BOOLEAN, {FALSE}, {Site}, FormatterLists, {Site}, NoArrays,
         NoMatrices)

SpecFormatter == Init /\ [][NextFormatter]_vars

\* The bit operations: a caller with two prefix variables of any values
\* over the six flags, applying the six operators to them in any order.
InitOperators ==
    /\ curPrefixes = op_or(FILE, LINE)
    /\ outputEnabled = TRUE
    /\ colorEnabled = FALSE
    /\ cout = [buf |-> <<>>, fill |-> " "]
    /\ \E m1 \in Masks, m2 \in Masks : call = [op |-> "init", lhs |-> m1, rhs |-> m2]
    /\ ret = "void"
    /\ reads = <<>>
    /\ lastSet = [prefixes |-> 3, output |-> TRUE, color |-> FALSE]
    /\ threads = [t \in ThreadIds |-> [pc |-> "idle"]]

NextOperators ==
    /\ \/ call_op_and
       \/ call_op_or
       \/ call_op_xor
       \/ call_op_and_assign
       \/ call_op_or_assign
       \/ call_op_xor_assign
    /\ UNCHANGED threads

SpecOperators == InitOperators /\ [][NextOperators]_vars

\* The calling thread of the single-threaded specifications.
Main == 1

\* The double negation of the output flag: thread Main runs the three
\* calls in sequence; before and after them it sets the other fields,
\* reads the flags and emits records.
ToggleMasks == {NONE, op_or(FILE, LINE), TYPE_NAME}

NextToggle ==
    \/ \E x \in BOOLEAN : toggle_first(Main, x)
    \/ toggle_second(Main)
    \/ toggle_third(Main)
    \/ /\ threads[Main].pc \in {"idle", "toggled"}
       /\ \/ \E p \in ToggleMasks : set_prefixes(p)
          \/ \E e \in BOOLEAN : set_color_enabled(e)
          \/ is_output_enabled
          \/ \E args \in OneScalar : call_l(Site, args)
          \/ \E a \in OneArrays : call_l_arr(Site, a)
          \/ \E m \in OneMatrices : call_l_mat(Site, m)
       /\ UNCHANGED threads

SpecToggle == Init /\ [][NextToggle]_vars

\* The k-th expression of a statement; an invocable one can be called with
\* any list of arguments and returns 42.
Expr(i, off, inv) ==
    [text |-> ArgText(i), value |-> Pool[((i + off) % Len(Pool)) + 1], invocable |-> inv,
     returns |-> IntV(42)]

\* Statements l(v1, ..., vk); of 0 to 18 expressions, none of them invocable
\* or the 17th invocable.
Statements ==
    {[i \in 1..k |-> Expr(i, off, FALSE)] : k \in 0..(MaxArity + 2), off \in 0..(MaxLen + 1)}
        \cup {[i \in 1..k |-> Expr(i, off, i = MaxArity + 1)] :
                  k \in (MaxArity + 1)..(MaxArity + 2), off \in 0..(MaxLen + 1)}

\* A program of one statement, before its translation, under the initial
\* mask or one that was set.
InitBuild ==
    /\ curPrefixes \in {op_or(FILE, LINE), NONE, TYPE_NAME}
    /\ outputEnabled = TRUE
    /\ colorEnabled = FALSE
    /\ cout = [buf |-> <<>>, fill |-> " "]
    /\ call \in {[op |-> "source", args |-> args, name |-> Empty] : args \in Statements}
    /\ ret = "void"
    /\ reads = <<>>
    /\ lastSet = [prefixes |-> curPrefixes, output |-> TRUE, color |-> FALSE]
    /\ threads = [t \in ThreadIds |-> [pc |-> "idle"]]

\* One statement l(...); translated and, when accepted, run.
NextBuild ==
    /\ \/ translate
       \/ run(Site)
    /\ UNCHANGED threads

SpecBuild == InitBuild /\ [][NextBuild]_vars

\* Two threads of the caller, each with its own statements to run, from a
\* configuration that was set before: one record each of a list of two
\* pairs or of an array of two elements.
ThreadMasks == {NONE, TYPE_NAME}

InitThreads ==
    /\ curPrefixes \in {op_or(FILE, LINE), TYPE_NAME}
    /\ outputEnabled = TRUE
    /\ colorEnabled \in BOOLEAN
    /\ cout = [buf |-> <<>>, fill |-> " "]
    /\ call = [op |-> "init"]
    /\ ret = "void"
    /\ reads = <<>>
    /\ lastSet = [prefixes |-> curPrefixes, output |-> TRUE, color |-> colorEnabled]
    /\ threads = [t \in ThreadIds |->
                     [pc |-> "idle", n |-> 0, m |-> 0, stmt |-> no_stmt, cnt |-> 0, k |-> 0,
                      frags |-> <<>>]]

Elements == [name |-> <<"a">>, val |-> <<IntV(3), IntV(14)>>, len |-> 2]

\* Both threads emit.
NextThreads ==
    \E t \in ThreadIds :
        \/ begin_l(t, Site, TwoPairs)
        \/ begin_l_arr(t, Site, Elements)
        \/ step(t)

SpecThreads == InitThreads /\ [][NextThreads]_vars

\* Thread Main emits while the other thread calls the setters.
Other == 23

NextRace ==
    \/ begin_l(Main, Site, TwoPairs)
    \/ begin_l_arr(Main, Site, Elements)
    \/ step(Main)
    \/ \E p \in ThreadMasks : thread_set_prefixes(Other, p)
    \/ \E e \in BOOLEAN : thread_set_output_enabled(Other, e)
    \/ \E e \in BOOLEAN : thread_set_color_enabled(Other, e)

SpecRace == InitThreads /\ [][NextRace]_vars

\* Thread Main emits a record of each shape while the other thread sets the
\* output flag.  A thread whose record is under way is scheduled again: each
\* operator<< of the chain returns and the next one is called.
NextEnable ==
    \/ begin_l(Main, Site, TwoPairs)
    \/ begin_l_arr(Main, Site, Elements)
    \/ \E m \in BuilderMatrices : begin_l_mat(Main, Site, m)
    \/ step(Main)
    \/ step_matrix(Main)
    \/ \E e \in BOOLEAN : thread_set_output_enabled(Other, e)

SpecEnable ==
    InitThreads /\ [][NextEnable]_vars /\ WF_vars(step(Main) \/ step_matrix(Main))

\* The same scalar emitted twice by thread Main, under every mask; the
\* configuration is set only between one pair of emissions and the next.
NextTwice ==
    \/ \E args \in OneScalar : twice_first(Main, Site, args)
    \/ \E line \in Lines : twice_second(Main, line)
    \/ /\ threads[Main].pc \in {"idle", "twice"}
       /\ \/ \E p \in Masks : set_prefixes(p)
          \/ \E e \in BOOLEAN : set_color_enabled(e)
       /\ threads' = [threads EXCEPT ![Main] = [pc |-> "idle"]]

SpecTwice == Init /\ [][NextTwice]_vars

----------------------------------------------------------------------------
(* Vocabulary of the properties. *)

EmitOps == {"l", "l_arr", "l_mat"}

\* The last call was an emission.
Emitting == call.op \in EmitOps

\* The last call was an emission that found output enabled.
Emitted == Emitting /\ outputEnabled

\* Membership of flag f in mask m, by arithmetic.
HasFlag(m, f) == (m \div f) % 2 = 1

StartsWith(s, t) == Len(t) <= Len(s) /\ SubSeq(s, 1, Len(t)) = t
EndsWith(s, t) == Len(t) <= Len(s) /\ SubSeq(s, Len(s) - Len(t) + 1, Len(s)) = t
Drop(s, n) == SubSeq(s, n + 1, Len(s))
Count(s, c) == Cardinality({i \in 1..Len(s) : s[i] = c})

\* The concatenation of a sequence of texts.
RECURSIVE Concat(_)
Concat(ts) == IF ts = <<>> THEN <<>> ELSE Head(ts) \o Concat(Tail(ts))

\* The texts ts joined by the separator j.
RECURSIVE Join(_, _)
Join(ts, j) ==
    IF ts = <<>> THEN <<>>
    ELSE IF Len(ts) = 1 THEN ts[1]
    ELSE ts[1] \o j \o Join(Tail(ts), j)

\* What the decorator wrote in the last call.
PrefixWritten == SubSeq(cout.buf, call.pfx[1] + 1, call.pfx[2])

\* The part of a path after its last separator: the one suffix that holds
\* no separator and is the whole path or follows a separator.
LastComponent(path) ==
    CHOOSE t \in {SubSeq(path, k, Len(path)) : k \in 1..(Len(path) + 1)} :
        /\ \A i \in 1..Len(t) : t[i] # sep
        /\ Len(t) = Len(path) \/ path[Len(path) - Len(t)] = sep

\* HH:MM:SS.mmm of a clock reading in milliseconds since the epoch.
TimeOfDay(now) ==
    LET ms == now % 1000
        s  == (now \div 1000) % 60
        m  == (now \div 60000) % 60
        h  == (now \div 3600000) % 24
    IN  <<Digit[(h \div 10) + 1], Digit[(h % 10) + 1], ":",
          Digit[(m \div 10) + 1], Digit[(m % 10) + 1], ":",
          Digit[(s \div 10) + 1], Digit[(s % 10) + 1], ".",
          Digit[(ms \div 100) + 1], Digit[((ms \div 10) % 10) + 1], Digit[(ms % 10) + 1]>>

\* The text of field f in the last call.
FieldText(f) ==
    CASE f = FILE -> LastComponent(call.ctx.file)
      [] f = LINE -> Dec(call.ctx.line)
      [] f = FUNCTION -> call.ctx.func \o <<"(", ")">>
      [] f = TIME -> TimeOfDay(call.clk.now)
      [] f = THREAD -> <<"T", "I", "D", ":", " ">> \o Dec(call.tid)

FieldOrder == <<FILE, LINE, FUNCTION, TIME, THREAD>>

\* The fields of the mask in the fixed order, TIME only when its conversion succeeds.
IsProduced(f) == HasFlag(curPrefixes, f) /\ (f = TIME => call.clk.local_ok)
Produced == SelectSeq(FieldOrder, IsProduced)

Punctuation == {<<>>, <<":">>, <<",", " ">>, <<"L", "i", "n", "e", ":", " ">>}

\* s is the texts of fields fs[k..], each after some punctuation, then
\* nothing or the final ": ".
RECURSIVE ParsesAs(_, _, _)
ParsesAs(s, fs, k) ==
    IF k > Len(fs) THEN s \in {<<>>, <<":", " ">>}
    ELSE \E pct \in Punctuation :
             /\ StartsWith(s, pct \o FieldText(fs[k]))
             /\ ParsesAs(Drop(s, Len(pct) + Len(FieldText(fs[k]))), fs, k + 1)

----------------------------------------------------------------------------
(* Properties. *)

\* C1: while outputEnabled is false, an emission of any shape writes no
\* byte at all to the stream.
C1_DisabledWritesNothing == (Emitting /\ ~outputEnabled) => cout.buf = <<>>

C1_Witness ==
    /\ call.op = "l_mat" /\ ~outputEnabled /\ colorEnabled /\ curPrefixes = 63
    /\ cout.buf = <<>>

\* C2: when the local-time conversion succeeds, the prefix is the texts of
\* exactly the fields FILE, LINE, FUNCTION, TIME, THREAD whose flag is in the
\* mask, each once, in that order, whatever TYPE_NAME is.
C2_PrefixFields ==
    (Emitted /\ (HasFlag(curPrefixes, TIME) => call.clk.local_ok))
        => ParsesAs(PrefixWritten, SelectSeq(FieldOrder, LAMBDA f : HasFlag(curPrefixes, f)), 1)

C2_Witness ==
    /\ Emitted /\ curPrefixes = 63 /\ call.clk.local_ok
    /\ call.ctx.file = <<"a", sep, "a">>
    /\ Len(PrefixWritten) > 0

\* C3: LINE is introduced by ":" when FILE was produced and by "Line: "
\* otherwise, each of FUNCTION, TIME, THREAD by ", " iff a field was produced
\* before it, and ": " ends the prefix iff a field was produced; a TIME whose
\* conversion fails is not produced.
C3_Intro(k) ==
    IF Produced[k] = LINE
    THEN IF \E i \in 1..(k - 1) : Produced[i] = FILE
         THEN <<":">> ELSE <<"L", "i", "n", "e", ":", " ">>
    ELSE IF k > 1 THEN <<",", " ">> ELSE <<>>

C3_ExpectedPrefix ==
    Concat([k \in 1..Len(Produced) |-> C3_Intro(k) \o FieldText(Produced[k])])
        \o (IF Len(Produced) > 0 THEN <<":", " ">> ELSE <<>>)

C3_PrefixPunctuation == Emitted => PrefixWritten = C3_ExpectedPrefix

C3_Witness ==
    /\ Emitted /\ HasFlag(curPrefixes, TIME) /\ ~HasFlag(curPrefixes, FILE)
    /\ HasFlag(curPrefixes, LINE) /\ HasFlag(curPrefixes, THREAD)
    /\ call.env.n_localtime > 0 /\ ~call.clk.local_ok
    /\ StartsWith(PrefixWritten, <<"L", "i", "n", "e", ":", " ">>)

\* C4: the FILE text is the part of the path after its last separator (the
\* whole path when it has none); it holds no separator, and FILE counts as a
\* produced field even when that text is empty.
C4_FileText ==
    LET n == CHOOSE n \in 0..Len(PrefixWritten) :
                 /\ \A i \in 1..n : PrefixWritten[i] \notin {":", ","}
                 /\ n < Len(PrefixWritten) => PrefixWritten[n + 1] \in {":", ","}
        written == SubSeq(PrefixWritten, 1, n)
    IN  (Emitted /\ HasFlag(curPrefixes, FILE)) =>
            /\ written = LastComponent(call.ctx.file)
            /\ \A i \in 1..Len(written) : written[i] # sep
            /\ n < Len(PrefixWritten)
            /\ HasFlag(curPrefixes, LINE) => PrefixWritten[n + 1] = ":"

C4_Witness ==
    /\ Emitted /\ HasFlag(curPrefixes, FILE) /\ HasFlag(curPrefixes, LINE)
    /\ call.ctx.file = <<"a", sep>>
    /\ StartsWith(PrefixWritten, <<":", "6", "8">>)

\* C5: each getter returns the value last passed to the setter of its own
\* field, or that field's default (FILE|LINE, true, false), and every field
\* holds that value: no setter changes another field.
C5_GettersFollowSetters ==
    /\ curPrefixes = lastSet.prefixes
    /\ outputEnabled = lastSet.output
    /\ colorEnabled = lastSet.color
    /\ call.op = "get_prefixes" => ret = lastSet.prefixes
    /\ call.op = "is_output_enabled" => ret = lastSet.output
    /\ call.op = "is_color_enabled" => ret = lastSet.color

C5_Witness ==
    /\ call.op = "is_color_enabled" /\ ret = TRUE
    /\ lastSet = [prefixes |-> 40, output |-> FALSE, color |-> TRUE]

\* The color sequences a record is expected to carry.
ColorStart == IF colorEnabled THEN <<ESC, "[", "0", ";", "3", "1", "m">> ELSE <<>>
ColorEnd == IF colorEnabled THEN <<ESC, "[", "0", "m">> ELSE <<>>

\* The body of the last record: what lies between the decoration and the
\* color-end sequence.
Body == SubSeq(cout.buf, call.pfx[2] + 1, Len(cout.buf) - Len(ColorEnd) - 1)

\* The marker of TYPE_NAME.
TypeMark == IF HasFlag(curPrefixes, TYPE_NAME) THEN <<"t", "y", "p", "e", " ">> ELSE <<>>

\* The formatter's rendering of a value.
Fmt(v) == write_Stringifier(start([buf |-> <<>>, fill |-> " "]), stringify(v)).os.buf

\* The number of ", " in s that lie outside every pair of braces.
TopLevelSeparators(s) ==
    Cardinality({i \in 1..(Len(s) - 1) :
        /\ s[i] = "," /\ s[i + 1] = " "
        /\ Cardinality({j \in 1..i : s[j] = "{"}) = Cardinality({j \in 1..i : s[j] = "}"})})

C7_RecordOrder ==
    Emitted =>
        /\ StartsWith(cout.buf, ColorStart)
        /\ call.pfx[1] = Len(ColorStart)
        /\ call.pfx[2] < Len(cout.buf) - Len(ColorEnd) - 1
        /\ EndsWith(cout.buf, ColorEnd \o <<"\n">>)
        /\ Count(cout.buf, "\n") = 1
        /\ Count(cout.buf, ESC) = IF colorEnabled THEN 2 ELSE 0

C7_Witness ==
    /\ Emitted /\ colorEnabled /\ curPrefixes = NONE /\ call.op = "l"
    /\ Len(call.args) = 1
    /\ cout.buf = <<ESC, "[", "0", ";", "3", "1", "m", "v", "1", " ", "=", " ", "\"", "s", "\"",
                    ESC, "[", "0", "m", "\n">>

\* The indices 0 .. n-1 as accesses.
Indices(n) == [i \in 1..n |-> <<i - 1>>]

\* The body of an array record after any marker: name = {e0, e1, ...}.
ArrayText(a) ==
    a.name \o <<" ", "=", " ", "{">>
        \o Join([i \in 1..a.len |-> Fmt(a.val[i])], <<",", " ">>) \o <<"}">>

C8_WitnessEmpty ==
    /\ Emitted /\ call.op = "l_arr" /\ call.arr.len = 0 /\ Len(call.arr.val) > 0
    /\ Body = <<"a", " ", "=", " ", "{", "}">>
    /\ reads = <<>>

\* The entries (i, j) of a rows x cols matrix in row-major order.
RowMajor(rows, cols) == [k \in 1..(rows * cols) |-> <<(k - 1) \div cols, (k - 1) % cols>>]

\* The body of a matrix record after any marker.
MatrixText(m) ==
    m.name \o <<":", " ">>
        \o (IF m.cols = 0 \/ m.rows = 0 THEN <<"{", "}">>
            ELSE Join([k \in 1..(m.rows * m.cols) |->
                          LET i == RowMajor(m.rows, m.cols)[k][1]
                              j == RowMajor(m.rows, m.cols)[k][2]
                          IN  <<"[">> \o Dec(i) \o <<",">> \o Dec(j) \o <<"]", " ", "=", " ">>
                                  \o Fmt(m.val[i + 1][j + 1])],
                     <<",", " ">>))

\* The accesses a matrix record is expected to make.
MatrixReads(m) == IF m.cols = 0 \/ m.rows = 0 THEN <<>> ELSE RowMajor(m.rows, m.cols)

C10_StackSummary ==
    (Emitted /\ call.op = "l" /\ Len(call.args) = 1
         /\ call.args[1].value.cat \in {"std::stack", "std::priority_queue"}) =>
        LET t == call.args[1].value
            n == Len(t.elems)
            at == IF t.cat = "std::stack" THEN n ELSE 1
            shown == IF n = 0 THEN <<"{", "}">>
                     ELSE IF n = 1 THEN <<"{">> \o Fmt(t.elems[at]) \o <<"}">>
                     ELSE <<"{">> \o Fmt(t.elems[at]) \o <<",", " ", ".", ".", ".", "}">>
        IN  /\ Body = TypeMark \o call.args[1].text \o <<" ", "=", " ">> \o shown
            /\ reads = IF n = 0 THEN <<>> ELSE <<<<at>>>>

\* The canonical rendering of a value by its category.
RECURSIVE Render(_)
Render(v) ==
    CASE v.cat = "bool" -> IF v.b THEN <<"t", "r", "u", "e">> ELSE <<"f", "a", "l", "s", "e">>
      [] v.cat \in CharCats -> <<"'">> \o v.s \o <<"'">>
      [] v.cat \in TextCats -> <<"\"">> \o v.s \o <<"\"">>
      [] v.cat \in SequenceCats ->
            <<"{">> \o Join([i \in 1..Len(v.elems) |-> Render(v.elems[i])], <<",", " ">>)
                \o <<"}">>
      [] v.cat \in MapCats ->
            <<"{">> \o Join([i \in 1..Len(v.elems) |->
                                Render(v.elems[i].first) \o <<":", " ">>
                                    \o Render(v.elems[i].second)],
                            <<",", " ">>)
                \o <<"}">>
      [] OTHER -> Dec(v.n)

\* The positions read while rendering v: those of its own elements, each
\* followed by the positions read inside that element.
RECURSIVE ReadsIn(_)
ReadsAt(v, ks) == Concat([i \in 1..Len(ks) |-> <<<<ks[i]>>>> \o ReadsIn(v.elems[ks[i]])])
ReadsIn(v) ==
    CASE v.cat \in SequenceCats -> ReadsAt(v, [i \in 1..Len(v.elems) |-> i])
      [] v.cat = "std::queue" ->
            ReadsAt(v, CASE Len(v.elems) = 0 -> <<>>
                         [] Len(v.elems) = 1 -> <<1>>
                         [] OTHER -> <<1, Len(v.elems)>>)
      [] OTHER -> <<>>

\* The last call was l(v1) with output enabled and v1 of a category in cats.
Formatted(cats) ==
    /\ Emitted /\ call.op = "l" /\ Len(call.args) = 1
    /\ call.args[1].value.cat \in cats

\* What the formatter wrote for v1 in the last call.
Rendering == Drop(Body, Len(TypeMark \o call.args[1].text \o <<" ", "=", " ">>))

\* C11: a queue renders as {} when empty, {front} for one element,
\* {front, back} for two and {front, ..., back} for more, front and back
\* being the canonical renderings of the first and last elements; no other
\* element is read.
C11_QueueSummary ==
    Formatted({"std::queue"}) =>
        LET e == call.args[1].value.elems
            n == Len(e)
        IN  /\ Rendering =
                   CASE n = 0 -> <<"{", "}">>
                     [] n = 1 -> <<"{">> \o Render(e[1]) \o <<"}">>
                     [] n = 2 -> <<"{">> \o Render(e[1]) \o <<",", " ">> \o Render(e[2])
                                     \o <<"}">>
                     [] OTHER -> <<"{">> \o Render(e[1])
                                     \o <<",", " ", ".", ".", ".", ",", " ">>
                                     \o Render(e[n]) \o <<"}">>
            /\ reads = ReadsIn(call.args[1].value)

C11_Witness ==
    /\ Formatted({"std::queue"}) /\ Len(call.args[1].value.elems) = 3
    /\ Rendering = <<"{", "\"", "a", "\"", ",", " ", ".", ".", ".", ",", " ", "\"", "b", "\"", "}">>

\* C12: a sequence or set renders as { the canonical renderings of its
\* elements in iteration order joined by ", " }, a map the same with entries
\* "key: value"; elements, keys and values render by the same rule; the
\* rendering holds no newline and every element is read once, in order.
C12_ContainerRendering ==
    Formatted(SequenceCats \cup MapCats) =>
        /\ Rendering = Render(call.args[1].value)
        /\ Count(Rendering, "\n") = 0
        /\ call.args[1].value.cat \in SequenceCats => reads = ReadsIn(call.args[1].value)

\* The last call was one of the six bit operators.
OperatorOps == {"operator&", "operator|", "operator^", "operator&=", "operator|=", "operator^="}

\* The flags of a mask, as a set.
FlagsOf(m) == {f \in {FILE, LINE, FUNCTION, TIME, THREAD, TYPE_NAME} : HasFlag(m, f)}

\* C13: | and & are idempotent, |, & and ^ are commutative, m ^ m is NONE,
\* and each in-place form leaves its left operand, and returns, what the
\* binary form gives; the results are the union, the intersection and the
\* symmetric difference of the flags.
C13_BitOperations ==
    call.op \in OperatorOps =>
        LET m1 == call.was
            m2 == call.rhs
        IN  /\ op_or(m1, m1) = m1 /\ op_or(m2, m2) = m2
            /\ op_and(m1, m1) = m1 /\ op_and(m2, m2) = m2
            /\ op_or(m1, m2) = op_or(m2, m1)
            /\ op_and(m1, m2) = op_and(m2, m1)
            /\ op_xor(m1, m2) = op_xor(m2, m1)
            /\ op_xor(m1, m1) = NONE /\ op_xor(m2, m2) = NONE
            /\ FlagsOf(op_or(m1, m2)) = FlagsOf(m1) \cup FlagsOf(m2)
            /\ FlagsOf(op_and(m1, m2)) = FlagsOf(m1) \cap FlagsOf(m2)
            /\ FlagsOf(op_xor(m1, m2)) = (FlagsOf(m1) \cup FlagsOf(m2)) \ (FlagsOf(m1) \cap FlagsOf(m2))
            /\ call.op = "operator&" => ret = op_and(m1, m2) /\ call.lhs = m1
            /\ call.op = "operator|" => ret = op_or(m1, m2) /\ call.lhs = m1
            /\ call.op = "operator^" => ret = op_xor(m1, m2) /\ call.lhs = m1
            /\ call.op = "operator&=" => call.lhs = op_and(m1, m2) /\ ret = call.lhs
            /\ call.op = "operator|=" => call.lhs = op_or(m1, m2) /\ ret = call.lhs
            /\ call.op = "operator^=" => call.lhs = op_xor(m1, m2) /\ ret = call.lhs

C13_Witness ==
    /\ call.op = "operator^=" /\ call.was = 63 /\ call.rhs = 63 /\ call.lhs = NONE
    /\ ret = NONE

\* Thread Main has run the three calls and, since then, nothing but
\* getters and emissions of the last call's kind.
Toggled == threads[Main].pc = "toggled"

\* C14 as stated: after set_output_enabled(x); set_output_enabled(!x);
\* set_output_enabled(x), for either x, what is observable is what was
\* before the three calls.
C14_AsStated ==
    (Toggled /\ call.op = "set_output_enabled") => observable = threads[Main].seen

\* C14 amended: after the three calls what is observable is what was after
\* the first call alone: the output flag is x and nothing else has changed,
\* which is the state before the calls exactly when the flag was x already;
\* is_output_enabled then returns x and an emission writes a record iff x.
C14_DoubleNegation ==
    Toggled =>
        /\ outputEnabled = threads[Main].x
        /\ call.op = "set_output_enabled" =>
               /\ observable = threads[Main].first
               /\ observable = [threads[Main].seen EXCEPT !.output = threads[Main].x]
               /\ (observable = threads[Main].seen) <=> (threads[Main].seen.output = threads[Main].x)
        /\ call.op = "is_output_enabled" => ret = threads[Main].x
        /\ Emitting => ((cout.buf # <<>>) <=> threads[Main].x)

C14_Witness ==
    /\ Toggled /\ call.op = "l" /\ threads[Main].x = FALSE /\ threads[Main].seen.output = TRUE
    /\ cout.buf = <<>>

\* The text of field f in the call c.
FieldTextOf(c, f) ==
    CASE f = FILE -> LastComponent(c.ctx.file)
      [] f = LINE -> Dec(c.ctx.line)
      [] f = FUNCTION -> c.ctx.func \o <<"(", ")">>
      [] f = TIME -> TimeOfDay(c.clk.now)
      [] f = THREAD -> <<"T", "I", "D", ":", " ">> \o Dec(c.tid)

\* The prefix of the call c under the present mask: the fields produced in
\* the fixed order, with the punctuation of C3.
PrefixOf(c) ==
    LET fs == SelectSeq(FieldOrder,
                        LAMBDA f : HasFlag(curPrefixes, f) /\ (f = TIME => c.clk.local_ok))
        intro(k) == IF fs[k] = LINE
                    THEN IF k > 1 THEN <<":">> ELSE <<"L", "i", "n", "e", ":", " ">>
                    ELSE IF k > 1 THEN <<",", " ">> ELSE <<>>
    IN  Concat([k \in 1..Len(fs) |-> intro(k) \o FieldTextOf(c, fs[k])])
            \o (IF Len(fs) > 0 THEN <<":", " ">> ELSE <<>>)

\* The record buf of the call c with its prefix replaced by that of the call d.
WithPrefixOf(buf, c, d) ==
    SubSeq(buf, 1, c.pfx[1]) \o PrefixOf(d) \o Drop(buf, c.pfx[2])

\* Thread Main has emitted the same scalar twice, the second time last.
Twice == threads[Main].pc = "twice" /\ call.op = "l" /\ outputEnabled

\* The reading of the clock c with the milliseconds of the reading d.
WithMillisOf(c, d) == [c EXCEPT !.now = (c.now - (c.now % 1000)) + (d.now % 1000)]

\* C15 as stated: the two records are the same bytes once the second one's
\* line number and milliseconds are replaced by the first one's.
C15_AsStated ==
    Twice =>
        LET first == threads[Main].first
        IN  first.out =
                WithPrefixOf(cout.buf, call,
                             [call EXCEPT !.ctx.line = first.call.ctx.line,
                                          !.clk = WithMillisOf(call.clk, first.call.clk)])

\* C15 amended: when the local-time conversion has the same outcome in both
\* emissions, the two records are the same bytes once the second one's line
\* number and TIME field (time of day and milliseconds) are replaced by the
\* first one's; nothing the first emission left behind changes the second.
C15_SameScalarTwice ==
    (Twice /\ call.clk.local_ok = threads[Main].first.call.clk.local_ok) =>
        LET first == threads[Main].first
        IN  first.out =
                WithPrefixOf(cout.buf, call,
                             [call EXCEPT !.ctx.line = first.call.ctx.line,
                                          !.clk = first.call.clk])

C15_Witness ==
    /\ Twice /\ curPrefixes = 63 /\ cout.fill = "0"
    /\ call.clk.local_ok /\ threads[Main].first.call.clk.local_ok
    /\ call.clk.now # threads[Main].first.call.clk.now
    /\ call.ctx.line # threads[Main].first.call.ctx.line
    /\ cout.buf # threads[Main].first.out

\* A statement of the source has been translated.
Translated == call.op = "translate"

\* C16: a statement of k expressions, 1 <= k <= 16, selects the builder of
\* arity k and is accepted; a statement of 0 or of 17 expressions selects no
\* builder and is rejected.
C16_Dispatch ==
    Translated =>
        LET k == Len(call.args)
        IN  /\ k \in 1..MaxArity => call.name = Builder(k) /\ ret = "accepted"
            /\ k \in {0, MaxArity + 1} => ~IsBuilder(call.name) /\ ret = "rejected"

\* What holds of the dispatch: the arities 1..16 select their builder and are
\* accepted, no expression selects GL_INTERNAL_L1 and is rejected, and 17
\* expressions select the 17th of them, rejected unless it is invocable.
C16_DispatchObserved ==
    Translated =>
        LET k == Len(call.args)
        IN  /\ k \in 1..MaxArity => call.name = Builder(k) /\ ret = "accepted"
            /\ k = 0 => call.name = Builder(1) /\ ret = "rejected"
            /\ k > MaxArity =>
                   /\ call.name = call.args[MaxArity + 1]
                   /\ ret = "accepted" <=> call.args[MaxArity + 1].invocable

\* A statement of 17 expressions that was accepted has run and written the
\* result of its 17th expression as the body of the record.
C16_AcceptedSeventeen ==
    /\ Emitted /\ call.op = "l" /\ Len(call.args) = MaxArity + 1 /\ curPrefixes = NONE
    /\ cout.buf = <<"4", "2">> \o GL_NEWLINE

\* C17: while outputEnabled is false, an emission of any shape samples no
\* clock, converts no time and asks for no thread id, whatever the mask.
C17_DisabledAsksNothing ==
    (Emitting /\ ~outputEnabled) =>
        /\ call.env.n_now = 0 /\ call.env.n_localtime = 0 /\ call.env.n_get_id = 0
        /\ call.clk = NoClock /\ call.tid = NoTid

C17_Witness ==
    /\ call.op = "l_arr" /\ ~outputEnabled
    /\ HasFlag(curPrefixes, TIME) /\ HasFlag(curPrefixes, THREAD)
    /\ call.env = no_env

\* C18: a step that is an emission leaves the three configuration fields
\* and the fill character of the stream as they were before it.
C18_EmissionLeavesNoState ==
    [][Emitting' =>
           /\ curPrefixes' = curPrefixes
           /\ outputEnabled' = outputEnabled
           /\ colorEnabled' = colorEnabled
           /\ cout'.fill = cout.fill]_vars

\* What holds of an emission: the configuration is left alone, and the fill
\* character changes only to '0', only when the milliseconds of TIME were
\* written.
C18_FillAfterTime ==
    [][Emitting' =>
           /\ curPrefixes' = curPrefixes
           /\ outputEnabled' = outputEnabled
           /\ colorEnabled' = colorEnabled
           /\ cout'.fill # cout.fill =>
                  /\ cout'.fill = "0"
                  /\ outputEnabled /\ HasFlag(curPrefixes, TIME) /\ call'.clk.local_ok]_vars

\* What the step being taken appends to the stream.
Appended == Drop(cout'.buf, Len(cout.buf))

\* Thread t takes the step that stands at pc.
Takes(t, pc) == threads[t].pc = pc /\ threads'[t] # threads[t]

\* The k-th pair of a list under the present mask.
PairText(args, k) ==
    (IF k > 1 THEN <<",", " ">> ELSE <<>>)
        \o TypeMark \o args[k].text \o <<" ", "=", " ">> \o Fmt(args[k].value)

\* C19: every step of an emission reads the configuration as it is when the
\* step runs, not as it was when the record began: color_start and color_end
\* each test color_enabled then, and each pair and the head of an array test
\* TYPE_NAME in the mask then; so a setter called by another thread in
\* between takes effect in the middle of the record.
C19_LiveConfiguration ==
    [][\A t \in ThreadIds :
           /\ Takes(t, "color_start") => Appended = ColorStart
           /\ Takes(t, "color_end") => Appended = ColorEnd
           /\ Takes(t, "pair") => Appended = PairText(threads[t].stmt.args, threads[t].k)
           /\ Takes(t, "head") =>
                  Appended = TypeMark \o threads[t].stmt.arr.m_name \o <<" ", "=", " ", "{">>
      ]_vars

\* Thread t has finished a record.
Finished(t) == threads[t].pc = "idle" /\ Len(threads[t].frags) > 0

\* A finished record of two pairs that begins with the color-start sequence,
\* has no color-end sequence before its newline, and marks its second pair
\* with 'type ' but not its first.
C19_Witness ==
    LET args == threads[Main].stmt.args
        pair(k) == args[k].text \o <<" ", "=", " ">> \o Fmt(args[k].value)
    IN  /\ Finished(Main) /\ threads[Main].stmt.op = "l"
        /\ StartsWith(cout.buf, <<ESC, "[", "0", ";", "3", "1", "m", "a", ":", "6", "8", ":", " ">>
                                    \o pair(1))
        /\ EndsWith(cout.buf, pair(1) \o <<",", " ", "t", "y", "p", "e", " ">> \o pair(2)
                                  \o GL_NEWLINE)

\* The reverse: a finished record with the color-end sequence and without
\* the color-start sequence.
C19_WitnessReverse ==
    /\ Finished(Main)
    /\ cout.buf[1] # ESC
    /\ EndsWith(cout.buf, <<ESC, "[", "0", "m">> \o GL_NEWLINE)

\* C20: no write of a record waits for another thread: whatever the other
\* thread is in the middle of, the next operator<< of a thread whose record
\* is under way can run; and a record reaches the stream in several writes.
C20_NoLock ==
    \A t \in ThreadIds :
        /\ threads[t].pc # "idle" => ENABLED step(t)
        /\ Finished(t) => Len(threads[t].frags) > 1

\* Both records are finished, and a fragment of the array record lies
\* between two fragments of the list record, the second of them at or before
\* its newline.
C20_Witness ==
    \E t \in ThreadIds, u \in ThreadIds :
        /\ t # u /\ Finished(t) /\ Finished(u)
        /\ threads[t].stmt.op = "l" /\ threads[u].stmt.op = "l_arr"
        /\ \E i \in DOMAIN threads[t].frags, j \in DOMAIN threads[t].frags,
              g \in DOMAIN threads[u].frags :
               /\ i < j
               /\ threads[t].frags[i][2] <= threads[u].frags[g][1]
               /\ threads[u].frags[g][2] <= threads[t].frags[j][1]

\* What thread t has written of its record so far.
RecordOf(t) ==
    LET f == threads[t].frags
    IN  Concat([i \in 1..Len(f) |-> SubSeq(cout.buf, f[i][1] + 1, f[i][2])])

\* The body of the statement of thread t under the present mask.
BodyOf(t) ==
    LET stmt == threads[t].stmt
    IN  IF stmt.op = "l"
        THEN Concat([k \in 1..Len(stmt.args) |-> PairText(stmt.args, k)])
        ELSE IF stmt.op = "l_arr"
        THEN TypeMark \o ArrayText([name |-> stmt.arr.m_name, val |-> stmt.arr.m_val,
                                    len |-> stmt.arr.m_len])
        ELSE TypeMark \o MatrixText([name |-> stmt.mat.m_name, val |-> stmt.mat.m_val,
                                     cols |-> stmt.mat.m_cols, rows |-> stmt.mat.m_rows])

\* The record of thread t is whole: it begins with any color-start sequence
\* and ends with the body, any color-end sequence, and the newline.
Complete(t) ==
    /\ StartsWith(RecordOf(t), ColorStart)
    /\ EndsWith(RecordOf(t), BodyOf(t) \o ColorEnd \o GL_NEWLINE)

\* Thread t comes to the test of outputEnabled of a statement.
Begins(t) == threads[t].pc = "idle" /\ threads'[t].m = threads[t].m + 1

\* The last emission of thread t saw outputEnabled = false.
Skipped(t) == threads[t].pc = "idle" /\ threads[t].m > 0 /\ threads[t].frags = <<>>

\* C21: each emission reads output_enabled once, before it writes: the test
\* writes nothing and the record gets under way exactly when the flag is set
\* then; only a thread whose record is under way writes, so an emission that
\* saw the flag clear writes nothing whatever the flag becomes; a record under
\* way goes on step by step whatever the flag becomes, so it is eventually
\* finished, and a finished record is whole, body and newline included.
C21_EnableReadOnce ==
    /\ [][\A t \in ThreadIds :
              /\ Begins(t) => /\ cout' = cout
                              /\ (threads'[t].pc # "idle") <=> outputEnabled
                              /\ threads'[t].frags = <<>>
              /\ threads[t].pc = "idle" /\ threads'[t].pc # "idle" => Begins(t)
              /\ threads'[t].frags # threads[t].frags /\ ~Begins(t) =>
                     /\ threads[t].pc # "idle"
                     /\ Len(cout'.buf) > Len(cout.buf)
              /\ Skipped(t) /\ Skipped(t)' /\ threads'[t].m = threads[t].m =>
                     cout' = cout \/ \E u \in ThreadIds \ {t} : threads'[u] # threads[u]
          ]_vars
    /\ [][cout' # cout => \E t \in ThreadIds :
                              /\ threads[t].pc # "idle"
                              /\ threads'[t].frags = Append(threads[t].frags,
                                                            <<Len(cout.buf), Len(cout'.buf)>>)
          ]_vars
    /\ [](\A t \in ThreadIds : Finished(t) => Complete(t))
    /\ \A t \in ThreadIds : (threads[t].pc # "idle") ~> (Finished(t) /\ Complete(t))

\* A matrix record under way whose test saw the flag set: the other thread
\* has cleared the flag since, in its only call, and the body stands in the
\* stream with the newline still to come.
C21_Witness ==
    /\ threads[Main].pc = "newline"
    /\ threads[Main].stmt.op = "l_mat"
    /\ threads[Main].stmt.mat.m_cols = 2 /\ threads[Main].stmt.mat.m_rows = 2
    /\ ~outputEnabled
    /\ threads[Other].n = 1
    /\ EndsWith(RecordOf(Main), BodyOf(Main) \o ColorEnd)

\* An emission that saw the flag clear and wrote nothing, the flag being set
\* again afterwards.
C21_WitnessSkipped ==
    /\ Skipped(Main)
    /\ threads[Main].stmt.op = "l"
    /\ outputEnabled
    /\ threads[Other].n = 2
    /\ cout.buf = <<>>

\* A finished record of each shape, written whole after the flag was cleared.
C21_WitnessFinished ==
    /\ Finished(Main) /\ Complete(Main)
    /\ threads[Main].stmt.op = "l_arr"
    /\ ~outputEnabled
    /\ threads[Other].n = 1

=============================================================================
